CONSTANTS
  ada = ada
  Ada = Ada
  Emails <- MCEmails
  Normal <- MCNormal
  Passwords = {w1, w2}
  Tokens = {t1, t2}
  Duration = 2
  MaxNow = 3
  Requests = {r1, r2, r3, r4}
  NoRow = NoRow
SPECIFICATION Spec
SYMMETRY Symmetry
 
INVARIANT AdmittedAsOwner
INVARIANT DeadTokensRefused
INVARIANT LiveTokensAdmitted
PROPERTY RevocationIsFinal
CHECK_DEADLOCK FALSE
