----------------------------- MODULE AtmExample -----------------------------
(**************************************************************************)
(* atm_run_example of src/ATM_example/atm.cpp: the atm, the bank and the  *)
(* interface, each on a thread of its own, and the main thread that turns *)
(* key presses into messages to the atm until 'q', then closes the three  *)
(* queues and joins the three threads.                                    *)
(**************************************************************************)
EXTENDS Atm, Bank, InterfaceMachine

CONSTANTS Keys,         \* the messages the keyboard sends
          Amount,       \* what 'w' asks for: 50 in the code
          MaxKeys,      \* bound: keys pressed
          MaxBacklog    \* bound: keys are pressed only while the atm's queue is
                        \* shorter than this

ASSUME AmountAssumption == Amount \in Nat \ {0} /\ InitialBalance \in Nat
ASSUME MaxKeysAssumption == MaxKeys \in Nat

VARIABLES main,         \* where the main thread is
          keys,         \* keys pressed so far
          rightPins,    \* history: how often the atm asked about the right PIN
          menus         \* history: how often a verification led to the menu

driverVars == <<main, keys>>
entries    == <<rightPins, menus>>
vars == <<queue, atmVars, bankVars, interfaceVars, driverVars, entries>>

Init == InitQueues /\ InitAtm /\ InitBank /\ InitInterface
        /\ main = "typing" /\ keys = 0
        /\ rightPins = 0 /\ menus = 0

\* The messages of the switch in atm_run_example.
Digit(d)         == [type |-> "digit_presses", digit |-> d]
withdraw_pressed == [type |-> "withdraw_pressed", amount |-> Amount]
DriverKeys == {Digit("right"), Digit("wrong"), withdraw_pressed,
               Msg("balance_pressed"), Msg("cancel_pressed"), Msg("card_inserted")}

\* The atm handles clear_last_pressed too, which no character sends.
ASSUME KeysAssumption == Keys \subseteq DriverKeys \cup {Msg("clear_last_pressed")}

Press(k) ==
    /\ main = "typing"
    /\ keys < MaxKeys
    /\ Len(queue["atm"]) < MaxBacklog
    /\ queue' = Send(queue, "atm", k)
    /\ keys' = keys + 1
    /\ UNCHANGED <<main, atmVars, bankVars, interfaceVars, entries>>

\* 'q'
Quit ==
    /\ main = "typing"
    /\ main' = "close bank"
    /\ UNCHANGED <<queue, keys, atmVars, bankVars, interfaceVars, entries>>

\* bank.done(), machine.done(), interface_hardware.done(), in that order.
Close(here, r, next) ==
    /\ main = here
    /\ queue' = Send(queue, r, close_queue)
    /\ main' = next
    /\ UNCHANGED <<keys, atmVars, bankVars, interfaceVars, entries>>

Join(here, runs, next) ==
    /\ main = here
    /\ ~runs
    /\ main' = next
    /\ UNCHANGED <<queue, keys, atmVars, bankVars, interfaceVars, entries>>

\* Mutant of Shutdown: main never closes the interface.
ShutdownForgetsInterface ==
    \/ Close("close bank", "bank", "close atm")
    \/ Close("close atm", "atm", "join atm")
    \/ Join("join atm", atmRuns, "join bank")
    \/ Join("join bank", bankRuns, "join interface")
    \/ Join("join interface", interfaceRuns, "exit")

Shutdown ==
    \/ Close("close bank", "bank", "close atm")
    \/ Close("close atm", "atm", "close interface")
    \/ Close("close interface", "interface", "join atm")
    \/ Join("join atm", atmRuns, "join bank")
    \/ Join("join bank", bankRuns, "join interface")
    \/ Join("join interface", interfaceRuns, "exit")

\* The history of what the atm asks, and of where that leads.
AsksRightPin == state = "getting_pin" /\ state' = "verifying_pin" /\ IsRight(pin')
OpensMenu    == state = "verifying_pin" /\ state' = "wait_for_action"
Entries ==
    /\ rightPins' = rightPins + (IF AsksRightPin THEN 1 ELSE 0)
    /\ menus' = menus + (IF OpensMenu THEN 1 ELSE 0)

AtmThread       == AtmNext /\ Entries /\ UNCHANGED <<bankVars, interfaceVars, driverVars>>
BankThread      == BankNext /\ UNCHANGED <<atmVars, interfaceVars, driverVars, entries>>
InterfaceThread == InterfaceNext /\ UNCHANGED <<atmVars, bankVars, driverVars, entries>>

Next ==
    \/ \E k \in Keys : Press(k)
    \/ Quit
    \/ Shutdown
    \/ AtmThread
    \/ BankThread
    \/ InterfaceThread

Spec == Init /\ [][Next]_vars

\* Every thread that can run does; the user owes us no key, not even 'q'.
FairSpec ==
    /\ Spec
    /\ WF_vars(Shutdown)
    /\ WF_vars(AtmThread)
    /\ WF_vars(BankThread)
    /\ WF_vars(InterfaceThread)

-----------------------------------------------------------------------------
Digits == {"right", "wrong"}

ActorsTypeOK ==
    /\ state \in States
    /\ prompted \in BOOLEAN
    /\ pin \in UNION {[1 .. n -> Digits] : n \in 0 .. PinLen}
    /\ withdraw_amount \in {0, Amount}
    /\ balance \in 0 .. InitialBalance
    /\ issued \in 0 .. InitialBalance
    /\ screen \in InterfaceHandles \cup {"blank"}
    /\ {atmRuns, bankRuns, interfaceRuns, verifyCancelled, withdrawCancelled}
         \subseteq BOOLEAN
    /\ main \in {"typing", "close bank", "close atm", "close interface",
                 "join atm", "join bank", "join interface", "exit"}
    /\ keys \in 0 .. MaxKeys

TypeOK == ActorsTypeOK /\ rightPins \in Nat /\ menus \in Nat

\* What the bank has charged, and what of it is on its way to the user.
Charged  == InitialBalance - balance
InFlight == Amount * (Count("atm", "withdraw_ok") + Count("interface", "issue_money"))

(**************************************************************************)
(* Bank and atm never create money: what was handed out or is about to be *)
(* has been charged, although answers outlive the sessions that asked for *)
(* them and may be taken by a later withdrawal (process_withdraw matches  *)
(* no answer with its request).                                           *)
(**************************************************************************)
NoMoneyCreated == issued + InFlight <= Charged

(**************************************************************************)
(* As long as no withdrawal was cancelled, no money is lost either: every *)
(* charge of the bank is handed out or is in one of the two queues.       *)
(**************************************************************************)
NoMoneyLost == ~withdrawCancelled => Charged = issued + InFlight

\* The states of a session whose PIN has been accepted.
MenuStates == {"wait_for_action", "process_withdraw", "process_balance"}

(**************************************************************************)
(* As long as no verification was cancelled, the menu is reached with the *)
(* right PIN only.  After a cancel the bank's late pin_verified can be    *)
(* the answer to the next PIN, a wrong one too: but the menu is never     *)
(* opened more often than the right PIN was typed.                        *)
(**************************************************************************)
MenuNeedsRightPin ==
    /\ state \in MenuStates /\ ~IsRight(pin) => verifyCancelled
    /\ menus <= rightPins

\* Requests of this type that a running bank will still answer.
Asked(type) == IF bankRuns THEN Count("bank", type) ELSE 0

(*************************************************************************)
(* The atm never waits for an answer nobody will give: in a state that   *)
(* waits for the bank a request is with the bank or an answer is in the  *)
(* atm's queue, until main has begun to close the queues.  (The state's  *)
(* types, which the counts below rely on, are checked with it.)          *)
(*************************************************************************)
NoOrphanWait ==
    /\ TypeOK
    /\ main = "typing" =>
      /\ state = "verifying_pin" =>
           Asked("verify_pin") + Count("atm", "pin_verified")
             + Count("atm", "pin_incorrect") > 0
      /\ state = "process_withdraw" =>
           Asked("withdraw") + Count("atm", "withdraw_ok")
             + Count("atm", "withdraw_denied") > 0
      /\ state = "process_balance" =>
           Asked("get_balance") + Count("atm", "balance") > 0

\* All messages have been handled and the atm waits for a key or an answer.
Quiet ==
    /\ main = "typing"
    /\ \A r \in Receivers : queue[r] = <<>>
    /\ state \in WaitingStates
    /\ state \in DOMAIN PromptOf => prompted

(**************************************************************************)
(* When all is quiet the screen asks for what the atm is waiting for (and *)
(* the atm is not waiting for the bank): a key dropped, or handled while  *)
(* prompts were still on their way, leaves no other state's prompt there. *)
(**************************************************************************)
ScreenFitsState ==
    Quiet => \/ state = "waiting_for_card" /\ screen = "display_enter_card"
             \/ state = "getting_pin" /\ screen = "display_enter_pin"
             \/ state = "wait_for_action" /\ screen = "display_withdraw_options"

(**************************************************************************)
(* 'q' ends the program: whatever the atm, the bank and the interface are *)
(* doing, the three closes reach them and the three joins return.         *)
(**************************************************************************)
QuitEndsProgram == main = "close bank" ~> main = "exit"

(*************************************************************************)
(* What interface_machine.h tells the user of a cancelled withdrawal     *)
(* ("Withdraw cancelled"): once all is quiet and no withdrawal is being  *)
(* processed, the account is charged what was handed out and no more.    *)
(*************************************************************************)
CancelledIsNotCharged == Quiet => Charged = issued
=============================================================================
