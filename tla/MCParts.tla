------------------------------- MODULE MCParts -------------------------------
(* Eight parts that share no state, checked side by side: three that hold a  *)
(* child process (FlxWorker, BridgeWorker, ProcessTree), two that place files*)
(* (RuntimeBundle, ImagePreparation), and three that derive documents        *)
(* (Protocol, Evaluation, Threshold).  A behaviour moves one of them,        *)
(* `focus`, from its initial state to its end.                               *)
EXTENDS FlxWorker, BridgeWorker, ProcessTree, RuntimeBundle, ImagePreparation,
        Protocol, Evaluation, Threshold

CONSTANT Foci   \* the parts that an instance is about

VARIABLE focus

children == <<flxVars, bridgeVars, treeVars>>
derived == <<protocolVars, evVars, thVars>>
stores == <<bundleVars, prepVars>>
partsVars == <<focus, children, stores, derived>>

\* The platform is the one input that an initial state has.
PartsInit ==
  /\ focus \in Foci
  /\ FlxInit /\ BridgeInit /\ BundleInit /\ PrepInit /\ ProtocolInit /\ EvInit /\ ThInit
  /\ TreeInit /\ (focus # "tree" => platform = "posix")

FlxMoves == focus = "flx"
  /\ UNCHANGED <<focus, bridgeVars, treeVars, stores, derived>>
BridgeMoves == focus = "bridge"
  /\ UNCHANGED <<focus, flxVars, treeVars, stores, derived>>
TreeMoves == focus = "tree"
  /\ UNCHANGED <<focus, flxVars, bridgeVars, stores, derived>>
BundleMoves == focus = "bundle" /\ UNCHANGED <<focus, children, prepVars, derived>>
ImagesMove == focus = "images" /\ UNCHANGED <<focus, children, bundleVars, derived>>
DocumentsMove(part) == focus = part /\ UNCHANGED <<focus, children, stores>>

PartsNext ==
  \/ FlxMoves /\ FlxNext
  \/ BridgeMoves /\ BridgeNext
  \/ TreeMoves /\ TreeNext
  \/ BundleMoves /\ BundleNext
  \/ ImagesMove /\ PrepNext
  \/ DocumentsMove("protocol") /\ ProtocolNext /\ UNCHANGED <<evVars, thVars>>
  \/ DocumentsMove("evaluation") /\ EvNext /\ UNCHANGED <<protocolVars, thVars>>
  \/ DocumentsMove("threshold") /\ ThNext /\ UNCHANGED <<protocolVars, evVars>>

\* FlxFairness, BridgeFairness, TreeFairness, BundleFairness and PrepFairness: a
\* step of a part leaves the others alone, so each is stated over its own variables.
PartsFairness ==
  /\ WF_flxVars(focus = "flx" /\ FlxParent)
  /\ WF_bridgeVars(focus = "bridge" /\ BridgeClient)
  /\ WF_bridgeVars(focus = "bridge" /\ BridgeTimer)
  /\ WF_treeVars(focus = "tree" /\ TreeCaller)
  /\ \A w \in Materializers : WF_bundleVars(focus = "bundle" /\ Materialize(w))
  /\ \A p \in Preparers : WF_prepVars(focus = "images" /\ Prepare(p))

PartsSpec == PartsInit /\ [][PartsNext]_partsVars /\ PartsFairness

-----------------------------------------------------------------------------
(* Properties that are about several parts.                                 *)

\* What is started is ended: there is one FLX worker at most, no bridge but the
\* one its client holds, none of either once their adapter is closed, and a
\* timeout is reported only over a process group or job that is gone.
NobodyIsLeftBehind ==
  /\ FlxTypeOK /\ BridgeTypeOK /\ TreeTypeOK
  /\ OneWorker /\ NoBridgeIsLost /\ TimedOutIsGone

\* A comparison that has no score has a reason: the FLX worker, its queue and
\* whatever the validation left behind cost none by themselves, and a bridge
\* costs no more of them than it had faults and late answers.
FailuresAreExplained == FailuresHaveACause /\ OneFaultOneFailure

\* Though every child may hang for ever, whoever waits for one gets to the end:
\* of the FLX invocation, of the walk over the bridge, of the external command.
\* Who copies a runtime and is refused asks again, and has the bundle in the end
\* if nothing was damaged; so are the images finished in the end, whatever died
\* on the way, if the resampler and HEAD stay as they are.
CallersEnd ==
  <>(CASE focus = "flx"    -> flxAt = "over"
       [] focus = "bridge" -> brAt = "over"
       [] focus = "tree"   -> treeAt = "over"
       [] focus = "bundle" -> EveryoneIsServed
       [] focus = "images" -> PreparationEnds
       [] OTHER            -> TRUE)

\* What was copied for a run is a runtime: whole, launchable, of one moment, and
\* not given to anybody who comes after it was damaged.
BundlesAreSound == BundleTypeOK /\ BundlesAreWhole /\ DamageIsReported

\* A set of images that is marked as finished was made by one resampler, whichever
\* each process that made it took and recorded; its marker cites what is on disk,
\* and it stays ready until an image is damaged.
PreparationsAreSound ==
  PrepTypeOK /\ OneResampler /\ MarkerCitesItsChain /\ FinishedIsReady

\* The rosters are what they are said to be: a cohort lacks no image that its
\* criteria asked for, of the same-subject impostors every image weighs the same,
\* and a cross-subject roster passes its audit exactly if it is the whole product.
RostersAreWhole ==
  ProtocolTypeOK /\ CohortIsPairable /\ ImpostorsAreBalanced /\ AuditMeansExhaustive

\* Over units that are three comparisons of one finger each, every published
\* fraction is the share of the comparisons that its name says, and the two
\* modules that select the fingers which survived SELF agree.
RatesAreSound == EvTypeOK /\ UnitsAreWhole /\ FiltersAgree /\ NumbersAreWhatTheySay

\* Of all thresholds there are, observed as a score or not, the two selections
\* take the best within their target, each by what it prefers; the sweep misses
\* none, no genuine score moves the calibrated boundary, and the evaluation
\* never reports a lower TAR than that boundary reaches.
ThresholdsAreOptimal ==
  /\ ThTypeOK /\ PointsAreThresholds /\ FarChoiceIsOptimal
  /\ BoundaryIsMostPermissive /\ GenuineNeverMoveTheBoundary
  /\ SweepIsNoWorse
=============================================================================
