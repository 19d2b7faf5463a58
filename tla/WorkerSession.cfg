\* Two slots and two orders, cancelled or not, the stream lost anywhere.
\* A session ends: CHECK_DEADLOCK FALSE.
SPECIFICATION Spec
CONSTANTS
  o1 = o1
  o2 = o2
  t1 = t1
  t2 = t2
  NoOrder = NoOrder
  Orders = {o1, o2}
  Slots = {t1, t2}
  PhasesOf <- PhasesOfOrders
  StepsOf <- StepsOfPhases
INVARIANT OrdersAreKept
INVARIANT KilledIsCancelled
INVARIANT NothingLeftBehind
PROPERTY OrdersEnd
CHECK_DEADLOCK FALSE
