SPECIFICATION FairSpec
CONSTANTS
  p1 = p1  p2 = p2
  k1 = k1  k2 = k2
  r1 = r1  r2 = r2  r3 = r3  r4 = r4  r5 = r5
  Payments = {p1, p2}
  Keys = {k1, k2}
  Requests = {r1, r2, r3, r5}
  WithIntent = {p1}
  Charged = {p1}
  Price <- MCPrice
  KeyOf <- MCKeyOf
  PaymentOf <- MCPaymentOf
  AskOf <- MCAskOf
INVARIANTS
  TypeOK
  CompletedIsPaidBack
  CompletedWithinPrice
  ReservedWithinPrice
  StatusFollowsRows
  AnsweredRefundsStand
PROPERTIES
  ImplementsLedger
  ReservationsSettle
