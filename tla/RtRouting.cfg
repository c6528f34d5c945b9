\* Every decision of the scheduler on pools of three nodes; a decision is final.
SPECIFICATION Spec
CONSTANTS
  Views <- MCViews
  Models <- MCModels
  Unset = Unset
INVARIANTS PlanIsAdequate PlanIsFrugal PickFollowsRanking NamesAgree ListedIsServed
CHECK_DEADLOCK FALSE
