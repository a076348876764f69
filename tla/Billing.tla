------------------------------ MODULE Billing ------------------------------
(* The bill of a stay as RunCalculateBill computes it, for the preview and *)
(* for the check-out.  Money is counted in tenths of a cent, so that a     *)
(* percentage of whole dollars and the tax on it are integers.             *)
EXTENDS Integers

CONSTANTS Rates,          \* nightly rates, in dollars
          MaxNights,      \* bound: nights booked
          MaxDays,        \* bound: days the guest stays
          Amounts,        \* prices of an order or of minibar items, in dollars
          MaxExtra,       \* bound: room service and minibar totals, in dollars
          MaxHours,       \* bound: late check-out hours
          DiscountValues  \* what a clerk types: a percentage or an amount

ASSUME BillingAssumption ==
  /\ Rates \subseteq Nat /\ Amounts \subseteq Nat /\ DiscountValues \subseteq Nat
  /\ MaxNights \in Nat /\ MaxDays \in Nat /\ MaxExtra \in Nat /\ MaxHours \in Nat

Dollar == 1000
DiscountTypes == {"none", "percentage", "fixed"}

VARIABLES stay,    \* rate, nights booked and days passed
          extras   \* room service, minibar, late hours and the discount

billVars == <<stay, extras>>

-----------------------------------------------------------------------------
AtLeast(a, b) == IF a >= b THEN a ELSE b
AtMost(a, b)  == IF a <= b THEN a ELSE b

(* Mutant: the nights left are charged.                                    *)
NightsCharged_Remaining(s) == AtLeast(s.nights - s.days, 1)

(* A night at least, the nights booked at most.                            *)
NightsCharged(s) == AtMost(AtLeast(s.days, 1), s.nights)

Subtotal(s, x) ==
  (s.rate * NightsCharged(s) + x.orders + x.minibar + x.hours * 20) * Dollar

(* Mutant: the discount is not limited to the subtotal.                    *)
Discount_Uncapped(s, x) ==
  CASE x.type = "percentage" -> (Subtotal(s, x) * x.value) \div 100
    [] x.type = "fixed" -> x.value * Dollar
    [] OTHER -> 0

Discount(s, x) ==
  LET asked == CASE x.type = "percentage" -> (Subtotal(s, x) * x.value) \div 100
                 [] x.type = "fixed" -> x.value * Dollar
                 [] OTHER -> 0
  IN  AtMost(asked, Subtotal(s, x))

Taxable(s, x)    == AtLeast(Subtotal(s, x) - Discount(s, x), 0)
(* Mutant: the tax is taken before the discount.                           *)
Tax_BeforeDiscount(s, x) == Subtotal(s, x) \div 10

Tax(s, x)        == Taxable(s, x) \div 10
GrandTotal(s, x) == Taxable(s, x) + Tax(s, x)

-----------------------------------------------------------------------------
BillInit ==
  /\ stay \in [rate : Rates, nights : 1..MaxNights, days : {0}]
  /\ extras \in [orders : {0}, minibar : {0}, hours : {0},
                 type : DiscountTypes, value : DiscountValues]

DayPasses ==
  /\ stay.days < MaxDays
  /\ stay' = [stay EXCEPT !.days = @ + 1]
  /\ UNCHANGED extras

OrderServed(a) ==
  /\ extras.orders + a <= MaxExtra
  /\ extras' = [extras EXCEPT !.orders = @ + a]
  /\ UNCHANGED stay

MinibarUsed(a) ==
  /\ extras.minibar + a <= MaxExtra
  /\ extras' = [extras EXCEPT !.minibar = @ + a]
  /\ UNCHANGED stay

HourLate ==
  /\ extras.hours < MaxHours
  /\ extras' = [extras EXCEPT !.hours = @ + 1]
  /\ UNCHANGED stay

BillNext == DayPasses \/ HourLate \/ \E a \in Amounts : OrderServed(a) \/ MinibarUsed(a)

BillSpec == BillInit /\ [][BillNext]_billVars

-----------------------------------------------------------------------------
(* The documented formula: the total is 110% of what the discount leaves   *)
(* of the subtotal, and nothing when the discount exceeds it.              *)
MatchesFormula ==
  LET off == CASE extras.type = "percentage" -> Subtotal(stay, extras) * extras.value
               [] extras.type = "fixed" -> extras.value * Dollar * 100
               [] OTHER -> 0
      left == Subtotal(stay, extras) * 100 - off
  IN  GrandTotal(stay, extras) * 1000 = IF left > 0 THEN left * 11 ELSE 0

(* The lines of the receipt add up: what is charged and what is discounted *)
(* make the subtotal, so the discount printed is never more than was due.  *)
ReceiptAddsUp ==
  /\ Discount(stay, extras) >= 0
  /\ GrandTotal(stay, extras) - Tax(stay, extras) + Discount(stay, extras)
       = Subtotal(stay, extras)

(* A bill never shrinks: another day, order, minibar item or late hour     *)
(* costs something or nothing, with any discount.                          *)
BillNeverShrinks ==
  [][GrandTotal(stay, extras) <= GrandTotal(stay', extras')]_billVars
=============================================================================
