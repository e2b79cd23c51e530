-------------------------------- MODULE Bank --------------------------------
(***************************************************************************)
(* bank_machine of src/ATM_example/bank.h: the account's balance and the   *)
(* answers to the atm's requests.  Every request carries the sender of the *)
(* one atm of the program (atm_queue), so the answers go to "atm".         *)
(***************************************************************************)
EXTENDS Messaging

CONSTANT InitialBalance     \* 199 in the code

VARIABLES balance,
          bankRuns          \* run() has not returned

bankVars == <<balance, bankRuns>>

InitBank == balance = InitialBalance /\ bankRuns = TRUE

\* A PIN is what was typed, each digit the right one for its place or not.  The
\* atm sends PINs of one length only, that of "1937".
IsRight(typed) == \A i \in DOMAIN typed : typed[i] = "right"

\* Mutant of VerifyPin: any PIN of the right length will do.
VerifyPinLength ==
    /\ bankRuns
    /\ Receives("bank", "verify_pin")
    /\ queue' = Send(Popped("bank"), "atm", Msg("pin_verified"))
    /\ UNCHANGED bankVars

\* handle<verify_pin>
VerifyPin ==
    /\ bankRuns
    /\ Receives("bank", "verify_pin")
    /\ LET answer == IF IsRight(Head(queue["bank"]).pin)
                     THEN "pin_verified" ELSE "pin_incorrect"
       IN  queue' = Send(Popped("bank"), "atm", Msg(answer))
    /\ UNCHANGED bankVars

\* Mutant of Withdraw: a denied withdrawal is charged what the account holds.
WithdrawChargesDenied ==
    /\ bankRuns
    /\ Receives("bank", "withdraw")
    /\ LET amount == Head(queue["bank"]).amount
       IN  IF balance >= amount
           THEN /\ queue' = Send(Popped("bank"), "atm", Msg("withdraw_ok"))
                /\ balance' = balance - amount
           ELSE /\ queue' = Send(Popped("bank"), "atm", Msg("withdraw_denied"))
                /\ balance' = 0
    /\ UNCHANGED bankRuns

\* Mutant of Withdraw: a request the account cannot cover is not answered.
WithdrawSilent ==
    /\ bankRuns
    /\ Receives("bank", "withdraw")
    /\ LET amount == Head(queue["bank"]).amount
       IN  IF balance >= amount
           THEN /\ queue' = Send(Popped("bank"), "atm", Msg("withdraw_ok"))
                /\ balance' = balance - amount
           ELSE queue' = Popped("bank") /\ UNCHANGED balance
    /\ UNCHANGED bankRuns

\* handle<withdraw>.  The answer is pushed before balance is reduced; balance
\* is private to this thread, so nobody sees the state between the two.
Withdraw ==
    /\ bankRuns
    /\ Receives("bank", "withdraw")
    /\ LET amount == Head(queue["bank"]).amount
       IN  IF balance >= amount
           THEN /\ queue' = Send(Popped("bank"), "atm", Msg("withdraw_ok"))
                /\ balance' = balance - amount
           ELSE /\ queue' = Send(Popped("bank"), "atm", Msg("withdraw_denied"))
                /\ UNCHANGED balance
    /\ UNCHANGED bankRuns

\* handle<get_balance>
GetBalance ==
    /\ bankRuns
    /\ Receives("bank", "get_balance")
    /\ queue' = Send(Popped("bank"), "atm",
                     [type |-> "balance", amount |-> balance])
    /\ UNCHANGED bankVars

\* handle<withdraw_processed>: the handler is empty.
WithdrawProcessed ==
    /\ bankRuns
    /\ Receives("bank", "withdraw_processed")
    /\ queue' = Popped("bank")
    /\ UNCHANGED bankVars

\* Mutant of CancelWithdraw: whatever was asked for is paid back.
CancelWithdrawRefunds ==
    /\ bankRuns
    /\ Receives("bank", "cancel_withdraw")
    /\ queue' = Popped("bank")
    /\ balance' = balance + Head(queue["bank"]).amount
    /\ UNCHANGED bankRuns

\* handle<cancel_withdraw>: the handler is empty, the charge stands.
CancelWithdraw ==
    /\ bankRuns
    /\ Receives("bank", "cancel_withdraw")
    /\ queue' = Popped("bank")
    /\ UNCHANGED bankVars

\* catch (close_queue)
CloseBank ==
    /\ bankRuns
    /\ Closes("bank")
    /\ queue' = Popped("bank")
    /\ bankRuns' = FALSE
    /\ UNCHANGED balance

BankNext ==
    \/ VerifyPin
    \/ Withdraw
    \/ GetBalance
    \/ WithdrawProcessed
    \/ CancelWithdraw
    \/ CloseBank
=============================================================================
