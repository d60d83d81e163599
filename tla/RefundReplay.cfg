SPECIFICATION Spec
CONSTANTS
  p1 = p1  p2 = p2
  k1 = k1  k2 = k2
  r1 = r1  r2 = r2  r3 = r3  r4 = r4  r5 = r5
  Payments = {p1}
  Keys = {k1}
  Requests = {r1, r2, r3}
  WithIntent = {p1}
  Charged = {p1}
  Price <- MCPrice
  KeyOf <- MCSameKey
  PaymentOf <- MCSamePayment
  AskOf <- MCSameAsk
PROPERTIES
  AnsweredRefundsAreReplayed
