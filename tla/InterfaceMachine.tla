-------------------------- MODULE InterfaceMachine --------------------------
(**************************************************************************)
(* interface_machine of src/ATM_example/interface_machine.h: prints what  *)
(* the atm tells it to, one message at a time, until its queue is closed. *)
(* Printing is modelled by the last thing shown and the money handed out. *)
(**************************************************************************)
EXTENDS Messaging

VARIABLES screen,         \* the type of the last message shown
          issued,         \* cash handed out so far
          interfaceRuns   \* run() has not returned

interfaceVars == <<screen, issued, interfaceRuns>>

InterfaceHandles ==
    {"issue_money", "display_insufficient_funds", "display_enter_pin",
     "display_enter_card", "display_balance", "display_withdraw_options",
     "display_withdraw_cancelled", "display_pin_incorrect", "eject_card"}

InitInterface == screen = "blank" /\ issued = 0 /\ interfaceRuns = TRUE

\* The handlers of run, all of which print; issue_money hands out money too.
Show ==
    /\ interfaceRuns
    /\ \E type \in InterfaceHandles :
          /\ Receives("interface", type)
          /\ screen' = type
          /\ issued' = IF type = "issue_money"
                       THEN issued + Head(queue["interface"]).amount
                       ELSE issued
    /\ queue' = Popped("interface")
    /\ UNCHANGED interfaceRuns

\* catch (close_queue): the thread ends; what is still queued is never shown.
CloseInterface ==
    /\ interfaceRuns
    /\ Closes("interface")
    /\ queue' = Popped("interface")
    /\ interfaceRuns' = FALSE
    /\ UNCHANGED <<screen, issued>>

InterfaceNext == Show \/ CloseInterface
=============================================================================
