-------------------------------- MODULE Atm --------------------------------
(***************************************************************************)
(* The atm of src/ATM_example/atm.h: a thread whose state is the member    *)
(* function that run() calls next.  A state function waits for one message *)
(* and reacts to it; waiting_for_card and wait_for_action put a prompt on  *)
(* the interface before they wait, each time they are called.              *)
(*                                                                         *)
(* The account number (always "acc1234") is left out.                      *)
(***************************************************************************)
EXTENDS Messaging

CONSTANT PinLen             \* pin_len of getting_pin, 4 in the code

ASSUME PinLenAssumption == PinLen \in Nat \ {0}

VARIABLES state,            \* the state function run() calls
          prompted,         \* that function has put up its prompt, if it has one
          pin,              \* the digits typed, each "right" or "wrong" for its place
          withdraw_amount,
          atmRuns,          \* run() has not returned
          verifyCancelled,  \* history: a cancel was taken in verifying_pin
          withdrawCancelled \* history: a cancel was taken in process_withdraw

atmVars == <<state, prompted, pin, withdraw_amount, atmRuns,
             verifyCancelled, withdrawCancelled>>
session   == <<pin, withdraw_amount>>
cancels   == <<verifyCancelled, withdrawCancelled>>

\* What each state function waits for.
Handles ==
    [waiting_for_card |-> {"card_inserted"},
     getting_pin      |-> {"digit_presses", "clear_last_pressed", "cancel_pressed"},
     verifying_pin    |-> {"pin_verified", "pin_incorrect", "cancel_pressed"},
     wait_for_action  |-> {"withdraw_pressed", "balance_pressed", "cancel_pressed"},
     process_withdraw |-> {"withdraw_ok", "withdraw_denied", "cancel_pressed"},
     process_balance  |-> {"balance", "cancel_pressed"}]

WaitingStates == DOMAIN Handles
States        == WaitingStates \cup {"done_processing"}

\* The prompts of the state functions that have one.
PromptOf == [waiting_for_card |-> "display_enter_card",
             wait_for_action  |-> "display_withdraw_options"]

InitAtm ==
    /\ state = "waiting_for_card"
    /\ prompted = FALSE
    /\ pin = <<>>
    /\ withdraw_amount = 0
    /\ atmRuns = TRUE
    /\ verifyCancelled = FALSE
    /\ withdrawCancelled = FALSE

\* run() calls the state function, which puts up its prompt.
Prompt ==
    /\ atmRuns
    /\ state \in DOMAIN PromptOf /\ ~prompted
    /\ queue' = Send(queue, "interface", Msg(PromptOf[state]))
    /\ prompted' = TRUE
    /\ UNCHANGED <<state, session, atmRuns, cancels>>

\* done_processing waits for nothing.
DoneProcessing ==
    /\ atmRuns
    /\ state = "done_processing"
    /\ queue' = Send(queue, "interface", Msg("eject_card"))
    /\ state' = "waiting_for_card"
    /\ UNCHANGED <<prompted, session, atmRuns, cancels>>

\* The state function s is in its incoming.wait().
Waits(s) ==
    /\ atmRuns
    /\ state = s
    /\ s \in DOMAIN PromptOf => prompted

\* In state s the atm pops a message of this type.
Takes(s, type) == Waits(s) /\ Receives("atm", type)

\* The handler has chosen the next state function.
Become(s) == state' = s /\ prompted' = FALSE

Contents == Head(queue["atm"])
Rest     == Popped("atm")

CardInserted ==
    /\ Takes("waiting_for_card", "card_inserted")
    /\ pin' = <<>>
    /\ queue' = Send(Rest, "interface", Msg("display_enter_pin"))
    /\ Become("getting_pin")
    /\ UNCHANGED <<withdraw_amount, atmRuns, cancels>>

\* The last digit of the PIN sends it to the bank.
DigitPresses ==
    /\ Takes("getting_pin", "digit_presses")
    /\ pin' = Append(pin, Contents.digit)
    /\ IF Len(pin') = PinLen
       THEN /\ queue' = Send(Rest, "bank", [type |-> "verify_pin", pin |-> pin'])
            /\ Become("verifying_pin")
       ELSE /\ queue' = Rest
            /\ Become("getting_pin")
    /\ UNCHANGED <<withdraw_amount, atmRuns, cancels>>

ClearLastPressed ==
    /\ Takes("getting_pin", "clear_last_pressed")
    /\ pin' = IF pin = <<>> THEN pin ELSE SubSeq(pin, 1, Len(pin) - 1)
    /\ queue' = Rest
    /\ Become("getting_pin")
    /\ UNCHANGED <<withdraw_amount, atmRuns, cancels>>

PinVerified ==
    /\ Takes("verifying_pin", "pin_verified")
    /\ queue' = Rest
    /\ Become("wait_for_action")
    /\ UNCHANGED <<session, atmRuns, cancels>>

\* Mutant of PinIncorrect: the user may try again, and is not told so.
PinIncorrectRetries ==
    /\ Takes("verifying_pin", "pin_incorrect")
    /\ queue' = Send(Rest, "interface", Msg("display_pin_incorrect"))
    /\ pin' = <<>>
    /\ Become("getting_pin")
    /\ UNCHANGED <<withdraw_amount, atmRuns, cancels>>

PinIncorrect ==
    /\ Takes("verifying_pin", "pin_incorrect")
    /\ queue' = Send(Rest, "interface", Msg("display_pin_incorrect"))
    /\ Become("done_processing")
    /\ UNCHANGED <<session, atmRuns, cancels>>

WithdrawPressed ==
    /\ Takes("wait_for_action", "withdraw_pressed")
    /\ withdraw_amount' = Contents.amount
    /\ queue' = Send(Rest, "bank", [type |-> "withdraw", amount |-> withdraw_amount'])
    /\ Become("process_withdraw")
    /\ UNCHANGED <<pin, atmRuns, cancels>>

BalancePressed ==
    /\ Takes("wait_for_action", "balance_pressed")
    /\ queue' = Send(Rest, "bank", Msg("get_balance"))
    /\ Become("process_balance")
    /\ UNCHANGED <<session, atmRuns, cancels>>

WithdrawOk ==
    /\ Takes("process_withdraw", "withdraw_ok")
    /\ queue' = Send(Send(Rest, "interface", [type |-> "issue_money",
                                              amount |-> withdraw_amount]),
                     "bank", [type |-> "withdraw_processed",
                              amount |-> withdraw_amount])
    /\ Become("done_processing")
    /\ UNCHANGED <<session, atmRuns, cancels>>

WithdrawDenied ==
    /\ Takes("process_withdraw", "withdraw_denied")
    /\ queue' = Send(Rest, "interface", Msg("display_insufficient_funds"))
    /\ Become("done_processing")
    /\ UNCHANGED <<session, atmRuns, cancels>>

\* Cancelling while the bank's answer to the withdrawal is outstanding.
CancelWithdrawal ==
    /\ Takes("process_withdraw", "cancel_pressed")
    /\ queue' = Send(Send(Rest, "bank", [type |-> "cancel_withdraw",
                                         amount |-> withdraw_amount]),
                     "interface", Msg("display_withdraw_cancelled"))
    /\ Become("done_processing")
    /\ withdrawCancelled' = TRUE
    /\ UNCHANGED <<session, atmRuns, verifyCancelled>>

ShowBalance ==
    /\ Takes("process_balance", "balance")
    /\ queue' = Send(Rest, "interface", [type |-> "display_balance",
                                         amount |-> Contents.amount])
    /\ Become("wait_for_action")
    /\ UNCHANGED <<session, atmRuns, cancels>>

\* The other states' cancel_pressed: nothing is said to the bank, whose answer
\* to a verify_pin or a get_balance may still be on its way.
CancelSession ==
    /\ \E s \in {"getting_pin", "verifying_pin", "wait_for_action", "process_balance"} :
          Takes(s, "cancel_pressed")
    /\ queue' = Rest
    /\ Become("done_processing")
    /\ verifyCancelled' = (verifyCancelled \/ state = "verifying_pin")
    /\ UNCHANGED <<session, atmRuns, withdrawCancelled>>

\* A message the state does not handle is dropped, and run() calls the state
\* function again, prompt and all.
DropMessage ==
    /\ \E s \in WaitingStates : Waits(s) /\ Drops("atm", Handles[s])
    /\ queue' = Rest
    /\ prompted' = FALSE
    /\ UNCHANGED <<state, session, atmRuns, cancels>>

\* catch (close_queue) in run().
CloseAtm ==
    /\ \E s \in WaitingStates : Waits(s) /\ Closes("atm")
    /\ queue' = Rest
    /\ atmRuns' = FALSE
    /\ UNCHANGED <<state, prompted, session, cancels>>

AtmNext ==
    \/ Prompt \/ DoneProcessing
    \/ CardInserted \/ DigitPresses \/ ClearLastPressed
    \/ PinVerified \/ PinIncorrect
    \/ WithdrawPressed \/ BalancePressed
    \/ WithdrawOk \/ WithdrawDenied \/ CancelWithdrawal
    \/ ShowBalance \/ CancelSession
    \/ DropMessage \/ CloseAtm
=============================================================================
