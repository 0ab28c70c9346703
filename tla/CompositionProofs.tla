------------------------- MODULE CompositionProofs -------------------------
(***************************************************************************)
(* The services beside one another: what MCServices runs as one system is, *)
(* seen from each service, that service alone.  So the theorems about the  *)
(* services hold of the system that the run checks.                        *)
(***************************************************************************)
EXTENDS MCServices, TaskProofs, AssessmentProofs, ServicesProofs

LEMMA ServicesStart ==
  ServicesInit => Init /\ AgentInit /\ WritingInit /\ BatchInit /\ ChecklistInit /\ OutcomesInit
                  /\ CostInit /\ DeskInit /\ FeedInit /\ AccountInit /\ ProviderInit
BY DEF ServicesInit

(* The step of one service is a step of it or none of any other.           *)
LEMMA TasksStep ==
  [ServicesNext]_servicesVars => [Next]_vars /\ [AgentNext]_agentVars
BY DEF ServicesNext, OthersStay, Stays, servicesVars

LEMMA AssessmentsStep ==
  [ServicesNext]_servicesVars =>
    /\ [WritingNext]_writingVars /\ [BatchNext]_batchVars /\ [ChecklistNext]_checklistVars
    /\ [OutcomesNext]_outcomeVars
BY DEF ServicesNext, OthersStay, Stays, servicesVars

LEMMA DesksStep ==
  [ServicesNext]_servicesVars =>
    /\ [CostNext]_costVars /\ [DeskNext]_deskVars /\ [FeedNext]_feedVars
    /\ [AccountNext]_accountVars /\ [ProviderNext]_providerVars
BY DEF ServicesNext, OthersStay, Stays, servicesVars

(* Every behaviour of the services beside one another is a behaviour of    *)
(* each: no service writes what another one owns.                          *)
THEOREM ServicesImplementEach ==
  ServicesSpec =>
    /\ Spec /\ AgentSpec
    /\ WritingSpec /\ BatchSpec /\ ChecklistSpec /\ OutcomesSpec
    /\ CostSpec /\ DeskSpec /\ FeedSpec /\ AccountSpec /\ ProviderSpec
BY ServicesStart, TasksStep, AssessmentsStep, DesksStep, PTL
   DEF ServicesSpec, Spec, AgentSpec, WritingSpec, BatchSpec, ChecklistSpec, OutcomesSpec,
       CostSpec, DeskSpec, FeedSpec, AccountSpec, ProviderSpec

(* ServicesTypeOK, the types of the services the run starts with.          *)
THEOREM ServicesTypeCorrect == ServicesSpec => []ServicesTypeOK
<1>1. TypeOK /\ AgentTypeOK /\ WritingTypeOK /\ BatchTypeOK /\ ProviderTypeOK => ServicesTypeOK
  BY DEF ServicesTypeOK
<1> QED
  BY <1>1, ServicesImplementEach, TypeCorrect, AgentTypeCorrect, WritingTypeCorrect, BatchCorrect,
     ProviderCorrect, PTL

(* Beside one another the services keep what each of them promises: the    *)
(* invariants of the run, of the system the run checks.                    *)
THEOREM ServicesKeepTheirPromises ==
  ServicesSpec =>
    [](/\ StuckOnlyByRestart /\ PaidForAResult /\ TaskEndIsRecorded
       /\ DeliveredIsChecked /\ RankingIsCoherent /\ ClearChecklistMeansAts /\ OutcomesAgree
       /\ CostsFollowVersions /\ RequestsAreSettled /\ SleepersAreCurrent /\ LimitsHold
       /\ ConfigurationIsCoherent)
BY ServicesImplementEach, StuckOnlyByRestartCorrect, PaidCorrect, TaskEndCorrect,
   DeliveredCorrect, BatchCorrect, ChecklistCorrect, OutcomesCorrect, CostsCorrect, DeskCorrect,
   FeedCorrect, LimitsCorrect, ProviderCorrect, PTL
=============================================================================
