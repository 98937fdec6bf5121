\* Every key in every order; answers may come while windows are open.
SPECIFICATION Spec
INVARIANTS   BareMeansBare
CHECK_DEADLOCK FALSE
