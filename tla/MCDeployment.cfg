CONSTANT Cases <- AllCases
SPECIFICATION Spec
INVARIANTS
  TypeOK PlanIsSound StartsAfterNeeds DependentsWait Serialized ServicesStart TrafficArrives
  SizeFits
CHECK_DEADLOCK FALSE
