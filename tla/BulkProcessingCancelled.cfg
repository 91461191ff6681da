\* Counterexample: a job is CANCELLED and its measures are there.
SPECIFICATION Spec
CONSTANTS
    c1 = c1
    e1 = e1
    w1 = w1
    Creator = {c1}
    Editor = {e1}
    WorkBasket = {w1}
    WorkBasketOf <- MCWorkBasketOf
    Key <- MCKey
    Worker = {v1}
    Superuser = {u1}
    None = None
    MaxDeaths = 0
INVARIANT
    CancelledIsConfirmed
CHECK_DEADLOCK FALSE
