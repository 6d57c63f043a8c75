SPECIFICATION Spec
CONSTANTS
  Requests = {r1, r2, r3}
  Emails = {e1}
  Tokens = {t1, t2, t3, t4}
  None = None
SYMMETRY Symmetry
INVARIANTS TypeOK ExchangedOnce OneSessionPerLogin RevokedNeverExchanged
PROPERTY ImplementsTokenChain
