CONSTANTS
  t1 = t1  t2 = t2
  led0 = led0  led1 = led1  led2 = led2
  Thread = {t1, t2}
  Pin = {led0, led1, led2}
  Owner <- TwoOfThem
  Users <- OneOnGowin
SPECIFICATION Spec
INVARIANTS
  LedsAsAsked
  IInv
