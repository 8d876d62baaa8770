------------------------------ MODULE FeeRules ------------------------------
(***************************************************************************)
(* What a mediated sale costs and who gets what, in cents of UYU           *)
(* (packages/shared: agent-fee-tiers.ts and intermediation-fees.ts, called *)
(* through payments/split.ts).  The commission is a fixed amount that      *)
(* depends on the price; the platform and the agent share it, and the      *)
(* buyer, the seller or both pay it.                                       *)
(***************************************************************************)
EXTENDS Integers, Sequences

CONSTANTS
  PlatformBps,  \* PAYMENTS_PLATFORM_FEE_BPS: its part of the commission, in 1/10000
  AgentBps      \* PAYMENTS_AGENT_FEE_BPS

ASSUME BpsAssumption == PlatformBps \in 0..10000 /\ AgentBps \in 0..10000

FeePayers == {"BUYER", "SELLER", "SPLIT_50_50"}

\* The commission and the lowest price of each tier.
Tier(commission, from) == [commission |-> commission, from |-> from]

AGENT_FEE_TIERS ==
  <<Tier(40000, 0), Tier(60000, 800000), Tier(80000, 2400000),
    Tier(100000, 4800000), Tier(140000, 8000000)>>

Reached(price) == {i \in DOMAIN AGENT_FEE_TIERS : price >= AGENT_FEE_TIERS[i].from}

\* The last tier of the list that the price reaches.
CommissionFor(price) ==
  AGENT_FEE_TIERS[CHOOSE i \in Reached(price) : \A j \in Reached(price) : j <= i].commission

Commissions == {AGENT_FEE_TIERS[i].commission : i \in DOMAIN AGENT_FEE_TIERS}

\* The price from which the commission is charged: what the filter of the open
\* jobs compares prices with.
MinProductFor(commission) ==
  AGENT_FEE_TIERS[CHOOSE i \in DOMAIN AGENT_FEE_TIERS :
                    AGENT_FEE_TIERS[i].commission = commission].from

----------------------------------------------------------------------------
PlatformFee(commission) == (commission * PlatformBps) \div 10000

\* The agent gets what rounding leaves, and never more than what is left.
AgentFeeRounded(commission) == (commission * AgentBps) \div 10000

AgentFee(commission) ==
  LET sum == PlatformFee(commission) + AgentFeeRounded(commission)
      left == commission - PlatformFee(commission)
  IN CASE sum < commission -> AgentFeeRounded(commission) + (commission - sum)
       [] sum > commission -> IF left > 0 THEN left ELSE 0
       [] OTHER -> AgentFeeRounded(commission)

\* What the seller gives up: all of the commission, nothing, or the greater half.
SellerPart(commission, payer) ==
  CASE payer = "BUYER" -> 0
    [] payer = "SELLER" -> commission
    [] payer = "SPLIT_50_50" -> commission - commission \div 2

\* Mutant: any price is accepted.
PayableAlways(price, payer) == price >= 0

\* A price that does not cover the seller's part is an IntermediationFeeError.
Payable(price, payer) == price >= SellerPart(CommissionFor(price), payer)

BuyerPays(price, payer) ==
  LET commission == CommissionFor(price)
  IN price + (commission - SellerPart(commission, payer))

SellerNet(price, payer) == price - SellerPart(CommissionFor(price), payer)

=============================================================================
