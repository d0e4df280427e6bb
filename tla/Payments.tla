------------------------------ MODULE Payments ------------------------------
(***************************************************************************)
(* Payments and subscriptions (tools/payments.go): a row in the site's     *)
(* database for each order, and the provider's own record of it.  A call   *)
(* asks the provider first and writes its row afterwards; the provider     *)
(* tells of what happens there by webhooks, which the brain hands to       *)
(* handle_webhook late, in any order, and more than once.                  *)
(*                                                                         *)
(* The provider is modelled by what tools/payments.go expects of it: what  *)
(* is canceled or paid stays so.                                           *)
(***************************************************************************)
EXTENDS Naturals, FiniteSets

CONSTANTS
    Payers,         \* calls that can be under way at the same time
    Subscriptions,  \* subscriptions
    Checkouts,      \* single payments
    MaxPayCalls,    \* calls ever made: BOUND of the model
    MaxPayFaults    \* lost answers, failed statements and crashes: BOUND of the model

ASSUME PaymentsAssumption ==
    /\ Subscriptions \cap Checkouts = {}
    /\ MaxPayCalls \in Nat /\ MaxPayFaults \in Nat

Orders == Subscriptions \cup Checkouts
Statuses == {"none", "pending", "active", "canceled", "paid"}

VARIABLES
    remote,     \* each order as the provider has it
    local,      \* the status in its row
    known,      \* orders whose row has the id that the provider's webhooks use
    news,       \* the webhooks that the provider has sent: <<order, status>>
    supported,  \* the provider configured is of a type that the code has requests for
    blank,      \* subscriptions whose row got no id at all
    pay,        \* what each call is doing
    payCalls, payFaults,
    unheard,    \* ghost: orders whose creation was cut short or not answered
    unasked     \* ghost: subscriptions that a call cancels without asking the provider

setUp == <<supported, blank>>
payVars == <<remote, local, known, news, setUp, pay, payCalls, payFaults, unheard, unasked>>

NoCall == [op |-> "idle", of |-> "none", status |-> "none"]

PaymentsInit ==
    /\ remote = [o \in Orders |-> "none"] /\ local = [o \in Orders |-> "none"]
    /\ known = {} /\ news = {} /\ blank = {} /\ unheard = {} /\ unasked = {}
    /\ supported \in BOOLEAN
    /\ pay = [c \in Payers |-> NoCall]
    /\ payCalls = 0 /\ payFaults = 0

-----------------------------------------------------------------------------
PayFault == payFaults < MaxPayFaults /\ payFaults' = payFaults + 1

Call(c, op, o, status) ==
    /\ pay[c] = NoCall /\ payCalls < MaxPayCalls
    /\ payCalls' = payCalls + 1
    /\ pay' = [pay EXCEPT ![c] = [op |-> op, of |-> o, status |-> status]]

Step(c, op) == pay' = [pay EXCEPT ![c].op = op] /\ UNCHANGED payCalls
Return(c) == pay' = [pay EXCEPT ![c] = NoCall] /\ UNCHANGED payCalls

\* createCheckout and createSubscription: the provider makes the order; its
\* answer may be lost, and then nothing is written.
Created(c, o) ==
    /\ remote[o] = "none"
    /\ remote' = [remote EXCEPT ![o] = "pending"]
    /\ \/ Call(c, "insert", o, "pending") /\ UNCHANGED <<payFaults, unheard>>
       \/ /\ pay[c] = NoCall /\ payCalls < MaxPayCalls /\ payCalls' = payCalls + 1
          /\ PayFault /\ unheard' = unheard \cup {o} /\ UNCHANGED pay
    /\ UNCHANGED <<local, known, news, setUp, unasked>>

\* A checkout may be asked of any provider, a subscription only of Stripe or PayPal.
CreateCheckout(c, o) == o \in Checkouts /\ Created(c, o)
CreateSubscription(c, o) == o \in Subscriptions /\ supported /\ Created(c, o)

\* configure: the provider and its type are replaced, whatever orders there are.
Configure ==
    /\ payCalls < MaxPayCalls /\ payCalls' = payCalls + 1
    /\ supported' \in BOOLEAN
    /\ UNCHANGED <<remote, local, known, news, blank, pay, payFaults, unheard, unasked>>

\* The row gets the id in the answer, or that of the checkout session when the
\* answer has no subscription yet, or the empty id when it has neither.
InsertOrder(c) ==
    /\ pay[c].op = "insert" /\ Return(c)
    /\ LET o == pay[c].of IN
          \/ /\ local' = [local EXCEPT ![o] = "pending"]
             /\ \/ known' = known \cup {o} /\ UNCHANGED blank
                \/ o \in Subscriptions /\ UNCHANGED <<known, blank>>
                \/ o \in Subscriptions /\ blank' = blank \cup {o} /\ UNCHANGED known
             /\ UNCHANGED <<payFaults, unheard>>
          \/ PayFault /\ unheard' = unheard \cup {o} /\ UNCHANGED <<local, known, blank>>
    /\ UNCHANGED <<remote, news, supported, unasked>>

\* cancelSubscription: not one that is canceled already.
CancelSubscription(c, o) ==
    /\ o \in Subscriptions /\ local[o] \notin {"none", "canceled"}
    /\ Call(c, "cancel", o, "none")
    /\ UNCHANGED <<remote, local, known, news, setUp, payFaults, unheard, unasked>>

\* Without an id in the row, or a request for the provider's type, nothing is
\* asked and the row is written all the same.
Skips(c) == ~supported \/ pay[c].of \in blank

CancelUnasked(c) ==
    /\ Skips(c) /\ Step(c, "canceled") /\ unasked' = unasked \cup {pay[c].of}
    /\ UNCHANGED <<remote, payFaults>>

\* Wrong on purpose: the row is written whatever the provider answers.
CancelRegardless(c) ==
    /\ pay[c].op = "cancel"
    /\ \/ CancelUnasked(c)
       \/ /\ ~Skips(c) /\ Step(c, "canceled")
          /\ remote' \in {remote, [remote EXCEPT ![pay[c].of] = "canceled"]}
          /\ UNCHANGED <<payFaults, unasked>>
    /\ UNCHANGED <<local, known, news, setUp, unheard>>

\* The provider cancels and says so; or it does not know the id or is not
\* reached; or its answer is lost.
CancelAtProvider(c) ==
    /\ pay[c].op = "cancel"
    /\ \/ CancelUnasked(c)
       \/ /\ ~Skips(c) /\ pay[c].of \in known
          /\ remote' = [remote EXCEPT ![pay[c].of] = "canceled"]
          /\ \/ Step(c, "canceled") /\ UNCHANGED payFaults
             \/ Return(c) /\ PayFault
          /\ UNCHANGED unasked
       \/ ~Skips(c) /\ pay[c].of \notin known /\ Return(c) /\ UNCHANGED <<remote, payFaults, unasked>>
       \/ ~Skips(c) /\ Return(c) /\ PayFault /\ UNCHANGED <<remote, unasked>>
    /\ UNCHANGED <<local, known, news, setUp, unheard>>

CancelRow(c) ==
    /\ pay[c].op = "canceled" /\ Return(c)
    /\ \/ local' = [local EXCEPT ![pay[c].of] = "canceled"] /\ UNCHANGED payFaults
       \/ PayFault /\ UNCHANGED local
    /\ UNCHANGED <<remote, known, news, setUp, unheard, unasked>>

\* checkSubscription: the provider's answer, if there is a request to ask it ...
CheckSubscription(c, o) ==
    /\ o \in Subscriptions \cap known /\ supported
    /\ Call(c, "check", o, remote[o])
    /\ UNCHANGED <<remote, local, known, news, setUp, payFaults, unheard, unasked>>

\* ... overwrites the status, whatever has happened since.
CheckRow(c) ==
    /\ pay[c].op = "check" /\ Return(c)
    /\ \/ local' = [local EXCEPT ![pay[c].of] = pay[c].status] /\ UNCHANGED payFaults
       \/ PayFault /\ UNCHANGED local
    /\ UNCHANGED <<remote, known, news, setUp, unheard, unasked>>

\* handleWebhook: UPDATE ... WHERE external_id: no row is no error, and the
\* news is as good as lost.  Those of a subscription are only understood in
\* Stripe's and PayPal's form.
HandleWebhook(o, status) ==
    /\ <<o, status>> \in news /\ (o \in Subscriptions => supported)
    /\ payCalls < MaxPayCalls /\ payCalls' = payCalls + 1
    /\ \/ /\ local' = IF o \in known THEN [local EXCEPT ![o] = status] ELSE local
          /\ UNCHANGED payFaults
       \/ PayFault /\ UNCHANGED local
    /\ UNCHANGED <<remote, known, news, setUp, pay, unheard, unasked>>

\* What happens at the provider: the customer pays, a subscription ends.
ProviderMoves(o) ==
    /\ \/ o \in Checkouts /\ remote[o] = "pending" /\ remote' = [remote EXCEPT ![o] = "paid"]
       \/ o \in Subscriptions /\ remote[o] = "pending" /\ remote' = [remote EXCEPT ![o] = "active"]
       \/ o \in Subscriptions /\ remote[o] = "active" /\ remote' = [remote EXCEPT ![o] = "canceled"]
    /\ UNCHANGED <<local, known, news, setUp, pay, payCalls, payFaults, unheard, unasked>>

\* It sends a webhook with the status of the moment (a renewal says active once more).
ProviderTells(o) ==
    /\ remote[o] # "none" /\ <<o, remote[o]>> \notin news
    /\ news' = news \cup {<<o, remote[o]>>}
    /\ UNCHANGED <<remote, local, known, setUp, pay, payCalls, payFaults, unheard, unasked>>

PayCrash ==
    /\ PayFault
    /\ unheard' = unheard \cup {pay[c].of : c \in {d \in Payers : pay[d].op = "insert"}}
    /\ pay' = [c \in Payers |-> NoCall]
    /\ UNCHANGED <<remote, local, known, news, setUp, payCalls, unasked>>

PaymentsNext ==
    \/ \E c \in Payers :
          \/ InsertOrder(c) \/ CancelAtProvider(c) \/ CancelRow(c) \/ CheckRow(c)
          \/ \E o \in Orders : \/ CreateCheckout(c, o) \/ CreateSubscription(c, o)
                               \/ CancelSubscription(c, o) \/ CheckSubscription(c, o)
    \/ \E o \in Orders : \/ ProviderMoves(o) \/ ProviderTells(o)
                         \/ \E status \in Statuses : HandleWebhook(o, status)
    \/ Configure \/ PayCrash

PaymentsSpec == PaymentsInit /\ [][PaymentsNext]_payVars

-----------------------------------------------------------------------------
\* Type correctness.
PaymentsTypeOK ==
    /\ remote \in [Orders -> Statuses] /\ local \in [Orders -> Statuses]
    /\ known \subseteq Orders /\ unheard \subseteq Orders
    /\ supported \in BOOLEAN /\ blank \subseteq Subscriptions /\ unasked \subseteq Subscriptions
    /\ news \subseteq Orders \X Statuses
    /\ pay \in [Payers -> [op : {"idle", "insert", "cancel", "canceled", "check"},
                           of : Orders \cup {"none"}, status : Statuses]]
    /\ payCalls \in 0 .. MaxPayCalls /\ payFaults \in 0 .. MaxPayFaults

\* What the rows say is final has happened at the provider, however late or
\* often its webhooks come, whatever fails in between and whatever is configured
\* meanwhile; only a subscription canceled without asking (its row has no id, or
\* no request is known for the provider's type) may go on there.  And an order at
\* the provider without a row is one that a call is about to write, or whose
\* creation failed or was not answered (createCheckout, createSubscription,
\* cancelSubscription, checkSubscription and handleWebhook).
RowsTellTheTruth ==
    \A o \in Orders :
        /\ local[o] = "paid" => remote[o] = "paid"
        /\ local[o] = "canceled" => remote[o] = "canceled" \/ o \in unasked
        /\ local[o] = "none" /\ remote[o] # "none" =>
              o \in unheard \/ \E c \in Payers : pay[c].op = "insert" /\ pay[c].of = o
=============================================================================
