----------------------------- MODULE AtmProofs -----------------------------
(***************************************************************************)
(* No money is created, and none is lost as long as no withdrawal is       *)
(* cancelled; the menu needs the right PIN as long as no verification is,  *)
(* and opens no more often than the right PIN is typed; the atm waits for  *)
(* no answer that nobody will give, and the screen asks for what it waits  *)
(* for: for every length of the PIN, every amount, every balance, and any  *)
(* number of keys and messages.                                            *)
(***************************************************************************)
EXTENDS AtmExample, FiniteSetTheorems, FunctionTheorems, SequenceTheorems, TLAPS

-----------------------------------------------------------------------------
(* The inductive invariant.                                              *)

Pins == UNION {[1 .. n -> Digits] : n \in 0 .. PinLen}

\* The messages each receiver can hold.
AtmMessages ==
    DriverKeys
      \cup {Msg("clear_last_pressed"), Msg("pin_verified"), Msg("pin_incorrect"),
            Msg("withdraw_ok"), Msg("withdraw_denied"), close_queue}
      \cup [type : {"balance"}, amount : 0 .. InitialBalance]
BankMessages ==
    [type : {"verify_pin"}, pin : Pins]
      \cup [type : {"withdraw", "withdraw_processed", "cancel_withdraw"},
            amount : {Amount}]
      \cup {Msg("get_balance"), close_queue}
InterfaceMessages ==
    {Msg(type) : type \in InterfaceHandles \ {"issue_money", "display_balance"}}
      \cup [type : {"issue_money"}, amount : {Amount}]
      \cup [type : {"display_balance"}, amount : 0 .. InitialBalance]
      \cup {close_queue}

Inbox == [atm |-> AtmMessages, bank |-> BankMessages, interface |-> InterfaceMessages]

\* q holds, for each receiver, messages it can get.
AreQueues(q) ==
    /\ q = [r \in Receivers |-> q[r]]
    /\ \A r \in Receivers : q[r] \in Seq(Inbox[r])

\* A request of the atm is in one place: with the bank, or as an answer to it.
Verifications ==
    Count("bank", "verify_pin") + Count("atm", "pin_verified")
      + Count("atm", "pin_incorrect")
Withdrawals ==
    Count("bank", "withdraw") + Count("atm", "withdraw_ok")
      + Count("atm", "withdraw_denied")
Enquiries == Count("bank", "get_balance") + Count("atm", "balance")

SessionInv ==
    /\ prompted => state \in DOMAIN PromptOf
    /\ state = "getting_pin" => Len(pin) < PinLen
    /\ state = "process_withdraw" => withdraw_amount = Amount

\* The atm waits for the bank only if it has asked.
AnswersInv ==
    /\ state = "verifying_pin" => Verifications > 0
    /\ state = "process_withdraw" => Withdrawals > 0
    /\ state = "process_balance" => Enquiries > 0

\* The bank is asked about the PIN p only.
VerifiesOnly(p) ==
    \A i \in DOMAIN queue["bank"] :
        queue["bank"][i].type = "verify_pin" => queue["bank"][i].pin = p

\* Unless a verification was cancelled, what is under way is the verification of
\* the PIN of this session.
PinInv ==
    ~verifyCancelled =>
        /\ Verifications = IF state = "verifying_pin" THEN 1 ELSE 0
        /\ state = "verifying_pin" =>
               /\ VerifiesOnly(pin)
               /\ Count("atm", "pin_verified") > 0 => IsRight(pin)
        /\ state \in MenuStates => IsRight(pin)

\* Unless a withdrawal was cancelled, no answer to one is left behind.
WithdrawalInv ==
    ~withdrawCancelled =>
        Withdrawals = IF state = "process_withdraw" THEN 1 ELSE 0

MoneyInv == NoMoneyCreated /\ NoMoneyLost

\* Nobody closes the bank or the interface before the user quits.
Closings == Count("bank", "close_queue") + Count("interface", "close_queue")

OpenInv == main = "typing" => bankRuns /\ Closings = 0

\* What the screen shows when the interface has caught up.
LastShown ==
    IF queue["interface"] = <<>> THEN screen
    ELSE queue["interface"][Len(queue["interface"])].type

ScreenInv ==
    main = "typing" =>
        /\ state = "waiting_for_card" /\ prompted => LastShown = "display_enter_card"
        /\ state = "getting_pin" => LastShown = "display_enter_pin"
        /\ state = "wait_for_action" /\ prompted => LastShown = "display_withdraw_options"

IInv ==
    /\ ActorsTypeOK
    /\ AreQueues(queue)
    /\ SessionInv
    /\ AnswersInv
    /\ PinInv
    /\ WithdrawalInv
    /\ MoneyInv
    /\ OpenInv
    /\ ScreenInv

\* How many messages of this type, or of this set, there are in s.
Held(s, type) == Cardinality({i \in DOMAIN s : s[i].type = type})
HeldIn(s, M)  == Cardinality({i \in DOMAIN s : s[i] \in M})

\* The requests about the right PIN.
RightRequests == {[type |-> "verify_pin", pin |-> p] : p \in {q \in Pins : IsRight(q)}}

\* A right PIN is with the bank, or its answer with the atm, or it has led to the menu.
EntriesInv ==
    /\ rightPins \in Nat /\ menus \in Nat
    /\ menus + HeldIn(queue["atm"], {Msg("pin_verified")})
         + HeldIn(queue["bank"], RightRequests) <= rightPins

-----------------------------------------------------------------------------
(* Counting the messages of a queue.                                     *)

\* Sequences with a message more, and with one less.
LEMMA AppendFacts ==
    ASSUME NEW S, NEW s \in Seq(S), NEW m \in S
    PROVE  /\ Append(s, m) \in Seq(S)
           /\ Append(s, m) # <<>>
           /\ Append(s, m)[Len(Append(s, m))] = m
           /\ \A i \in DOMAIN Append(s, m) :
                  \/ Append(s, m)[i] = m
                  \/ \E j \in DOMAIN s : Append(s, m)[i] = s[j]
  <1>1. DOMAIN s = 1 .. Len(s) /\ Len(s) \in Nat
    BY LenProperties
  <1>2. /\ Append(s, m) \in Seq(S) /\ Append(s, m) # <<>>
        /\ Len(Append(s, m)) = Len(s) + 1
        /\ \A i \in 1 .. Len(s) : Append(s, m)[i] = s[i]
        /\ Append(s, m)[Len(s) + 1] = m
    BY AppendProperties
  <1>3. DOMAIN Append(s, m) = 1 .. Len(s) + 1
    BY <1>2, LenProperties
  <1> QED
    BY <1>1, <1>2, <1>3

LEMMA TailFacts ==
    ASSUME NEW S, NEW s \in Seq(S), s # <<>>
    PROVE  /\ Tail(s) \in Seq(S) /\ Head(s) \in S
           /\ \A i \in DOMAIN Tail(s) : \E j \in DOMAIN s : Tail(s)[i] = s[j]
           /\ \E j \in DOMAIN s : Head(s) = s[j]
           /\ s[Len(s)] = IF Tail(s) = <<>> THEN Head(s) ELSE Tail(s)[Len(Tail(s))]
  <1>1. DOMAIN s = 1 .. Len(s) /\ Len(s) \in Nat /\ Len(s) > 0
    BY LenProperties, EmptySeq
  <1>2. Tail(s) \in Seq(S) /\ Head(s) \in S /\ Len(Tail(s)) = Len(s) - 1
    BY HeadTailProperties
  <1>3. /\ DOMAIN Tail(s) = 1 .. Len(s) - 1
        /\ \A i \in 1 .. Len(s) - 1 : Tail(s)[i] = s[i + 1]
        /\ Head(s) = s[1]
    BY <1>1, <1>2, LenProperties
  <1>4. ASSUME NEW i \in DOMAIN Tail(s)
        PROVE  \E j \in DOMAIN s : Tail(s)[i] = s[j]
    <2>1. i + 1 \in DOMAIN s /\ Tail(s)[i] = s[i + 1]
      BY <1>1, <1>3
    <2> QED
      BY <2>1
  <1>5. 1 \in DOMAIN s /\ Head(s) = s[1]
    BY <1>1, <1>3
  <1>6. Tail(s) = <<>> <=> Len(s) = 1
    <2>1. Tail(s) = <<>> => Len(Tail(s)) = 0
      BY EmptySeq
    <2>2. Tail(s) # <<>> => Len(Tail(s)) > 0
      BY <1>2, EmptySeq
    <2> QED
      BY <1>1, <1>2, <2>1, <2>2
  <1>7. s[Len(s)] = IF Tail(s) = <<>> THEN Head(s) ELSE Tail(s)[Len(Tail(s))]
    <2>1. CASE Len(s) = 1
      BY <1>3, <1>6, <2>1
    <2>2. CASE Len(s) # 1
      <3>1. Len(s) - 1 \in 1 .. Len(s) - 1
        BY <1>1, <2>2
      <3>2. Tail(s)[Len(s) - 1] = s[(Len(s) - 1) + 1]
        BY <1>3, <3>1
      <3>3. (Len(s) - 1) + 1 = Len(s)
        BY <1>1
      <3> QED
        BY <1>2, <1>6, <2>2, <3>2, <3>3
    <2> QED
      BY <2>1, <2>2
  <1> QED
    BY <1>2, <1>4, <1>5, <1>7

LEMMA HeldInIsNat ==
    ASSUME NEW S, NEW s \in Seq(S), NEW M
    PROVE  /\ IsFiniteSet({i \in DOMAIN s : s[i] \in M})
           /\ HeldIn(s, M) \in Nat
           /\ HeldIn(s, M) > 0 <=> \E i \in DOMAIN s : s[i] \in M
  <1> DEFINE I == {i \in DOMAIN s : s[i] \in M}
  <1>1. DOMAIN s = 1 .. Len(s) /\ Len(s) \in Nat
    BY LenProperties
  <1>2. IsFiniteSet(1 .. Len(s))
    BY <1>1, FS_Interval
  <1>3. IsFiniteSet(I)
    BY <1>1, <1>2, FS_Subset
  <1>4. Cardinality(I) \in Nat /\ (Cardinality(I) = 0 <=> I = {})
    BY <1>3, FS_CardinalityType, FS_EmptySet
  <1> QED
    BY <1>3, <1>4 DEF HeldIn

LEMMA HeldInAfterAppend ==
    ASSUME NEW S, NEW s \in Seq(S), NEW m \in S, NEW M
    PROVE  HeldIn(Append(s, m), M) = HeldIn(s, M) + (IF m \in M THEN 1 ELSE 0)
  <1> DEFINE I == {i \in DOMAIN s : s[i] \in M}
             t == Append(s, m)
             J == {i \in DOMAIN t : t[i] \in M}
  <1>1. DOMAIN s = 1 .. Len(s) /\ Len(s) \in Nat
    BY LenProperties
  <1>2. /\ DOMAIN t = 1 .. Len(s) + 1
        /\ \A i \in 1 .. Len(s) : t[i] = s[i]
        /\ t[Len(s) + 1] = m
    BY <1>1, AppendProperties, LenProperties
  <1>3. IsFiniteSet(I) /\ HeldIn(s, M) \in Nat
    BY HeldInIsNat
  <1>4. CASE m \in M
    <2>1. J = I \cup {Len(s) + 1} /\ Len(s) + 1 \notin I
      BY <1>1, <1>2, <1>4
    <2>2. Cardinality(J) = Cardinality(I) + 1
      BY <1>3, <2>1, FS_AddElement
    <2> QED
      BY <1>4, <2>2 DEF HeldIn
  <1>5. CASE m \notin M
    <2>1. J = I
      BY <1>1, <1>2, <1>5
    <2>2. HeldIn(t, M) = HeldIn(s, M)
      BY <2>1 DEF HeldIn
    <2> QED
      BY <1>3, <1>5, <2>2
  <1> QED
    BY <1>4, <1>5

\* What taking an element out of a finite set does to their number.
LEMMA WithoutOne ==
    ASSUME NEW I, IsFiniteSet(I), NEW x
    PROVE  /\ IsFiniteSet(I \ {x}) /\ Cardinality(I) \in Nat
           /\ x \in I => Cardinality(I \ {x}) = Cardinality(I) - 1
           /\ x \notin I => Cardinality(I \ {x}) = Cardinality(I)
  <1>1. Cardinality(I) \in Nat
    BY FS_CardinalityType
  <1>2. IsFiniteSet(I \ {x})
    BY FS_RemoveElement
  <1>3. ASSUME x \in I PROVE Cardinality(I \ {x}) = Cardinality(I) - 1
    BY <1>3, FS_RemoveElement
  <1>4. ASSUME x \notin I PROVE I \ {x} = I
    BY <1>4
  <1> QED
    BY <1>1, <1>2, <1>3, <1>4

\* Taking the first message off shifts the indices of the others.
LEMMA HeldInAfterTail ==
    ASSUME NEW S, NEW s \in Seq(S), s # <<>>, NEW M
    PROVE  HeldIn(Tail(s), M) = HeldIn(s, M) - (IF Head(s) \in M THEN 1 ELSE 0)
  <1> DEFINE I == {i \in DOMAIN s : s[i] \in M}
             t == Tail(s)
             J == {i \in DOMAIN t : t[i] \in M}
             R == I \ {1}
             f == [i \in R |-> i - 1]
  <1>1. DOMAIN s = 1 .. Len(s) /\ Len(s) \in Nat /\ Len(s) > 0
    BY LenProperties, EmptySeq
  <1>2. /\ DOMAIN t = 1 .. Len(s) - 1
        /\ \A i \in 1 .. Len(s) - 1 : t[i] = s[i + 1]
        /\ Head(s) = s[1]
    BY <1>1, HeadTailProperties, LenProperties
  <1>3. IsFiniteSet(I) /\ HeldIn(s, M) \in Nat
    BY HeldInIsNat
  <1>4. IsFiniteSet(R) /\ Cardinality(R) = Cardinality(I) - (IF 1 \in I THEN 1 ELSE 0)
    <2> HIDE DEF I
    <2> QED
      BY <1>3, WithoutOne
  <1>5. 1 \in I <=> Head(s) \in M
    BY <1>1, <1>2
  <1>6. f \in Bijection(R, J)
    <2>1. f \in [R -> J]
      BY <1>1, <1>2
    <2>2. \A a, b \in R : f[a] = f[b] => a = b
      BY <1>1
    <2>3. \A j \in J : \E a \in R : f[a] = j
      <3>1. ASSUME NEW j \in J
            PROVE  j + 1 \in R /\ f[j + 1] = j
        BY <1>1, <1>2
      <3> QED
        BY <3>1
    <2> QED
      BY <2>1, <2>2, <2>3, Fun_IsBij
  <1>7. Cardinality(J) = Cardinality(R)
    <2> HIDE DEF I, J, R, f
    <2>1. ExistsBijection(R, J)
      BY <1>6 DEF ExistsBijection
    <2> QED
      BY <1>4, <2>1, FS_Bijection
  <1>8. HeldIn(t, M) = Cardinality(J) /\ HeldIn(s, M) = Cardinality(I)
    BY DEF HeldIn
  <1> QED
    <2> HIDE DEF I, J, R, f, t
    <2>1. HeldIn(t, M) = HeldIn(s, M) - (IF Head(s) \in M THEN 1 ELSE 0)
      BY <1>4, <1>5, <1>7, <1>8
    <2> QED
      BY <2>1 DEF t

\* The messages of a type are a set of messages.
LEMMA HeldIsHeldIn ==
    ASSUME NEW S, NEW s \in Seq(S), NEW type
    PROVE  /\ Held(s, type) = HeldIn(s, {m \in S : m.type = type})
           /\ \A i \in DOMAIN s : s[i] \in {m \in S : m.type = type} <=> s[i].type = type
  <1>1. \A i \in DOMAIN s : s[i] \in S
    BY LenProperties, ElementOfSeq
  <1>2. {i \in DOMAIN s : s[i].type = type}
          = {i \in DOMAIN s : s[i] \in {m \in S : m.type = type}}
    BY <1>1
  <1> QED
    BY <1>1, <1>2 DEF Held, HeldIn

LEMMA HeldIsNat ==
    ASSUME NEW S, NEW s \in Seq(S), NEW type
    PROVE  /\ Held(s, type) \in Nat
           /\ Held(s, type) > 0 <=> \E i \in DOMAIN s : s[i].type = type
  <1> DEFINE M == {m \in S : m.type = type}
  <1>1. /\ Held(s, type) = HeldIn(s, M)
        /\ \A i \in DOMAIN s : s[i] \in M <=> s[i].type = type
    BY HeldIsHeldIn
  <1> HIDE DEF M
  <1>2. /\ HeldIn(s, M) \in Nat
        /\ HeldIn(s, M) > 0 <=> \E i \in DOMAIN s : s[i] \in M
    BY HeldInIsNat
  <1> QED
    BY <1>1, <1>2

LEMMA HeldAfterAppend ==
    ASSUME NEW S, NEW s \in Seq(S), NEW m \in S, NEW type
    PROVE  Held(Append(s, m), type) = Held(s, type) + (IF m.type = type THEN 1 ELSE 0)
  <1> DEFINE M == {x \in S : x.type = type}
  <1>1. Append(s, m) \in Seq(S)
    BY AppendFacts
  <1>2. Held(s, type) = HeldIn(s, M) /\ Held(Append(s, m), type) = HeldIn(Append(s, m), M)
    BY <1>1, HeldIsHeldIn
  <1>3. m \in M <=> m.type = type
    OBVIOUS
  <1> HIDE DEF M
  <1> QED
    BY <1>2, <1>3, HeldInAfterAppend

LEMMA HeldAfterTail ==
    ASSUME NEW S, NEW s \in Seq(S), s # <<>>, NEW type
    PROVE  Held(Tail(s), type) = Held(s, type) - (IF Head(s).type = type THEN 1 ELSE 0)
  <1> DEFINE M == {x \in S : x.type = type}
  <1>1. Tail(s) \in Seq(S) /\ Head(s) \in S
    BY TailFacts
  <1>2. Held(s, type) = HeldIn(s, M) /\ Held(Tail(s), type) = HeldIn(Tail(s), M)
    BY <1>1, HeldIsHeldIn
  <1>3. Head(s) \in M <=> Head(s).type = type
    BY <1>1
  <1> HIDE DEF M
  <1> QED
    BY <1>2, <1>3, HeldInAfterTail

-----------------------------------------------------------------------------
(* What a step does to one queue.                                        *)

Keeps(r)      == queue'[r] = queue[r]
Pops(r, type) == Receives(r, type) /\ queue'[r] = Tail(queue[r])
Pushes(r, m)  == m \in Inbox[r] /\ queue'[r] = Append(queue[r], m)

LEMMA CountIsNat ==
    ASSUME AreQueues(queue), NEW r \in Receivers, NEW type
    PROVE  /\ Count(r, type) \in Nat
           /\ Count(r, type) > 0 <=> \E i \in DOMAIN queue[r] : queue[r][i].type = type
  <1>1. queue[r] \in Seq(Inbox[r])
    BY DEF AreQueues
  <1>2. Count(r, type) = Held(queue[r], type)
    BY DEF Count, Held
  <1> QED
    BY <1>1, <1>2, HeldIsNat

LEMMA KeepsCounts ==
    ASSUME AreQueues(queue), NEW r \in Receivers, Keeps(r)
    PROVE  /\ queue'[r] \in Seq(Inbox[r])
           /\ \A type : Count(r, type)' = Count(r, type)
  <1>1. ASSUME NEW type
        PROVE  /\ Count(r, type)' = Held(queue'[r], type)
               /\ Count(r, type) = Held(queue[r], type)
    BY DEF Count, Held
  <1> QED
    BY <1>1 DEF Keeps, AreQueues

LEMMA PopsCounts ==
    ASSUME AreQueues(queue), NEW r \in Receivers, NEW a, Pops(r, a)
    PROVE  /\ queue'[r] \in Seq(Inbox[r])
           /\ Head(queue[r]) \in Inbox[r]
           /\ \A type : Count(r, type)' = Count(r, type) - (IF type = a THEN 1 ELSE 0)
           /\ \A i \in DOMAIN queue'[r] :
                  \E j \in DOMAIN queue[r] : queue'[r][i] = queue[r][j]
           /\ \E j \in DOMAIN queue[r] : Head(queue[r]) = queue[r][j]
           /\ queue[r][Len(queue[r])] =
                IF queue'[r] = <<>> THEN Head(queue[r]) ELSE queue'[r][Len(queue'[r])]
  <1> DEFINE s == queue[r]
  <1>1. s \in Seq(Inbox[r]) /\ s # <<>> /\ Head(s).type = a /\ queue'[r] = Tail(s)
    BY DEF AreQueues, Pops, Receives
  <1>2. ASSUME NEW type
        PROVE  Count(r, type)' = Count(r, type) - (IF type = a THEN 1 ELSE 0)
    <2>1. Count(r, type)' = Held(Tail(s), type) /\ Count(r, type) = Held(s, type)
      BY <1>1 DEF Count, Held
    <2> QED
      BY <1>1, <2>1, HeldAfterTail
  <1>3. /\ Tail(s) \in Seq(Inbox[r]) /\ Head(s) \in Inbox[r]
        /\ \A i \in DOMAIN Tail(s) : \E j \in DOMAIN s : Tail(s)[i] = s[j]
        /\ \E j \in DOMAIN s : Head(s) = s[j]
        /\ s[Len(s)] = IF Tail(s) = <<>> THEN Head(s) ELSE Tail(s)[Len(Tail(s))]
    <2> HIDE DEF s
    <2> QED
      BY <1>1, TailFacts
  <1> QED
    BY <1>1, <1>2, <1>3

LEMMA PushesCounts ==
    ASSUME AreQueues(queue), NEW r \in Receivers, NEW m, Pushes(r, m)
    PROVE  /\ queue'[r] \in Seq(Inbox[r])
           /\ \A type : Count(r, type)'
                = Count(r, type) + (IF m.type = type THEN 1 ELSE 0)
           /\ \A i \in DOMAIN queue'[r] :
                  \/ queue'[r][i] = m
                  \/ \E j \in DOMAIN queue[r] : queue'[r][i] = queue[r][j]
           /\ queue'[r] # <<>>
           /\ queue'[r][Len(queue'[r])] = m
  <1> DEFINE s == queue[r]
  <1>1. s \in Seq(Inbox[r]) /\ m \in Inbox[r] /\ queue'[r] = Append(s, m)
    BY DEF AreQueues, Pushes
  <1>2. ASSUME NEW type
        PROVE  Count(r, type)' = Count(r, type) + (IF m.type = type THEN 1 ELSE 0)
    <2>1. Count(r, type)' = Held(Append(s, m), type) /\ Count(r, type) = Held(s, type)
      BY <1>1 DEF Count, Held
    <2> QED
      BY <1>1, <2>1, HeldAfterAppend
  <1>3. /\ Append(s, m) \in Seq(Inbox[r])
        /\ Append(s, m) # <<>>
        /\ Append(s, m)[Len(Append(s, m))] = m
        /\ \A i \in DOMAIN Append(s, m) :
               \/ Append(s, m)[i] = m
               \/ \E j \in DOMAIN s : Append(s, m)[i] = s[j]
    <2> HIDE DEF s
    <2> QED
      BY <1>1, AppendFacts
  <1> QED
    BY <1>1, <1>2, <1>3

\* What the messages carry.
LEMMA Carried ==
    /\ \A m \in Inbox["atm"] :
         /\ m.type = "digit_presses" => m.digit \in Digits
         /\ m.type = "withdraw_pressed" => m.amount = Amount
         /\ m.type = "balance" => m.amount \in 0 .. InitialBalance
    /\ \A m \in Inbox["bank"] : m.type = "withdraw" => m.amount = Amount
    /\ \A m \in Inbox["interface"] : m.type = "issue_money" => m.amount = Amount
  <1>1. /\ Inbox["atm"] = AtmMessages /\ Inbox["bank"] = BankMessages
        /\ Inbox["interface"] = InterfaceMessages
    BY DEF Inbox
  <1>2. ASSUME NEW m \in AtmMessages
        PROVE  /\ m.type = "digit_presses" => m.digit \in Digits
               /\ m.type = "withdraw_pressed" => m.amount = Amount
               /\ m.type = "balance" => m.amount \in 0 .. InitialBalance
    BY DEF AtmMessages, DriverKeys, Digit, withdraw_pressed, Msg, close_queue, Digits
  <1>3. ASSUME NEW m \in BankMessages, m.type = "withdraw"
        PROVE  m.amount = Amount
    BY <1>3 DEF BankMessages, Msg, close_queue
  <1>4. ASSUME NEW m \in InterfaceMessages, m.type = "issue_money"
        PROVE  m.amount = Amount
    BY <1>4 DEF InterfaceMessages, Msg, close_queue
  <1> QED
    BY <1>1, <1>2, <1>3, <1>4

\* What the actors send fits where they send it.
LEMMA Sendable ==
    /\ \A m \in Keys : m \in Inbox["atm"]
    /\ \A r \in Receivers : close_queue \in Inbox[r]
    /\ \A type \in {"pin_verified", "pin_incorrect", "withdraw_ok", "withdraw_denied"} :
           Msg(type) \in Inbox["atm"]
    /\ \A n \in 0 .. InitialBalance :
           /\ [type |-> "balance", amount |-> n] \in Inbox["atm"]
           /\ [type |-> "display_balance", amount |-> n] \in Inbox["interface"]
    /\ \A p \in Pins : [type |-> "verify_pin", pin |-> p] \in Inbox["bank"]
    /\ \A type \in {"withdraw", "withdraw_processed", "cancel_withdraw"} :
           [type |-> type, amount |-> Amount] \in Inbox["bank"]
    /\ Msg("get_balance") \in Inbox["bank"]
    /\ \A type \in InterfaceHandles \ {"issue_money", "display_balance"} :
           Msg(type) \in Inbox["interface"]
    /\ [type |-> "issue_money", amount |-> Amount] \in Inbox["interface"]
  <1>1. /\ Inbox["atm"] = AtmMessages /\ Inbox["bank"] = BankMessages
        /\ Inbox["interface"] = InterfaceMessages
    BY DEF Inbox
  <1>2. \A m \in Keys : m \in AtmMessages
    BY KeysAssumption DEF AtmMessages
  <1>3. \A r \in Receivers : close_queue \in Inbox[r]
    BY <1>1 DEF Receivers, AtmMessages, BankMessages, InterfaceMessages
  <1>4. /\ \A type \in {"pin_verified", "pin_incorrect", "withdraw_ok", "withdraw_denied"} :
               Msg(type) \in AtmMessages
        /\ \A n \in 0 .. InitialBalance : [type |-> "balance", amount |-> n] \in AtmMessages
    BY DEF AtmMessages
  <1>5. /\ \A p \in Pins : [type |-> "verify_pin", pin |-> p] \in BankMessages
        /\ \A type \in {"withdraw", "withdraw_processed", "cancel_withdraw"} :
               [type |-> type, amount |-> Amount] \in BankMessages
        /\ Msg("get_balance") \in BankMessages
    BY DEF BankMessages
  <1>6. /\ \A n \in 0 .. InitialBalance :
               [type |-> "display_balance", amount |-> n] \in InterfaceMessages
        /\ \A type \in InterfaceHandles \ {"issue_money", "display_balance"} :
               Msg(type) \in InterfaceMessages
        /\ [type |-> "issue_money", amount |-> Amount] \in InterfaceMessages
    BY DEF InterfaceMessages
  <1> QED
    BY <1>1, <1>2, <1>3, <1>4, <1>5, <1>6

-----------------------------------------------------------------------------
(* What a step does to all three queues.                                 *)

\* r's queue gives a message of the first type away, or gets one of the second.
Does(r, out, in) ==
    \/ out = "nothing" /\ in = "nothing" /\ Keeps(r)
    \/ out # "nothing" /\ in = "nothing" /\ Pops(r, out)
    \/ out = "nothing" /\ in # "nothing" /\ \E m : Pushes(r, m) /\ m.type = in

Traffic(atmOut, atmIn, bankOut, bankIn, interfaceOut, interfaceIn) ==
    /\ queue' = [r \in Receivers |-> queue'[r]]
    /\ Does("atm", atmOut, atmIn)
    /\ Does("bank", bankOut, bankIn)
    /\ Does("interface", interfaceOut, interfaceIn)

Is(a, b)    == IF a = b THEN 1 ELSE 0
Worth(a, b) == IF a = b THEN Amount ELSE 0

LEMMA DoesCounts ==
    ASSUME AreQueues(queue), NEW r \in Receivers, NEW out, NEW in, Does(r, out, in)
    PROVE  /\ queue'[r] \in Seq(Inbox[r])
           /\ \A type : type # "nothing" =>
                  Count(r, type)' = Count(r, type) - Is(out, type) + Is(in, type)
  <1>1. \A type : Count(r, type) \in Nat
    BY CountIsNat
  <1>2. CASE out = "nothing" /\ in = "nothing" /\ Keeps(r)
    BY <1>1, <1>2, KeepsCounts DEF Is
  <1>3. CASE out # "nothing" /\ in = "nothing" /\ Pops(r, out)
    BY <1>1, <1>3, PopsCounts DEF Is
  <1>4. CASE out = "nothing" /\ in # "nothing" /\ \E m : Pushes(r, m) /\ m.type = in
    <2>1. PICK m : Pushes(r, m) /\ m.type = in
      BY <1>4
    <2>2. /\ queue'[r] \in Seq(Inbox[r])
          /\ \A type : Count(r, type)' = Count(r, type) + (IF m.type = type THEN 1 ELSE 0)
      BY <2>1, PushesCounts
    <2> QED
      BY <1>1, <1>4, <2>1, <2>2 DEF Is
  <1> QED
    BY <1>2, <1>3, <1>4 DEF Does

\* The three receivers are three.
LEMMA ThreeReceivers ==
    /\ "atm" \in Receivers /\ "bank" \in Receivers /\ "interface" \in Receivers
    /\ Receivers \ {"atm"} = {"bank", "interface"}
    /\ Receivers \ {"atm", "bank"} = {"interface"}
    /\ Receivers \ {"atm", "interface"} = {"bank"}
    /\ Receivers \ {"bank"} = {"atm", "interface"}
    /\ Receivers \ {"bank", "atm"} = {"interface"}
    /\ Receivers \ {"interface"} = {"atm", "bank"}
    /\ Receivers \ {"interface", "atm"} = {"bank"}
  BY DEF Receivers

LEMMA TotalsAreNats ==
    ASSUME AreQueues(queue)
    PROVE  /\ Count("bank", "verify_pin") \in Nat /\ Count("atm", "pin_verified") \in Nat
           /\ Count("atm", "pin_incorrect") \in Nat
           /\ Count("bank", "withdraw") \in Nat /\ Count("atm", "withdraw_ok") \in Nat
           /\ Count("atm", "withdraw_denied") \in Nat
           /\ Count("bank", "get_balance") \in Nat /\ Count("atm", "balance") \in Nat
           /\ Count("interface", "issue_money") \in Nat
           /\ Closings \in Nat
           /\ Verifications \in Nat /\ Withdrawals \in Nat /\ Enquiries \in Nat
           /\ InFlight \in Nat
  <1>1. /\ Count("bank", "verify_pin") \in Nat /\ Count("atm", "pin_verified") \in Nat
        /\ Count("atm", "pin_incorrect") \in Nat
        /\ Count("bank", "withdraw") \in Nat /\ Count("atm", "withdraw_ok") \in Nat
        /\ Count("atm", "withdraw_denied") \in Nat
        /\ Count("bank", "get_balance") \in Nat /\ Count("atm", "balance") \in Nat
        /\ Count("interface", "issue_money") \in Nat
        /\ Count("bank", "close_queue") \in Nat
        /\ Count("interface", "close_queue") \in Nat
    BY CountIsNat DEF Receivers
  <1>2. InFlight \in Nat
    BY <1>1, AmountAssumption DEF InFlight
  <1> QED
    BY <1>1, <1>2 DEF Verifications, Withdrawals, Enquiries, Closings

\* The totals of the inductive invariant after a step.
LEMMA TrafficTotals ==
    ASSUME AreQueues(queue),
           NEW ao, NEW ai, NEW bo, NEW bi, NEW io, NEW ii,
           Traffic(ao, ai, bo, bi, io, ii)
    PROVE  /\ AreQueues(queue)'
           /\ Verifications' = Verifications
                - Is(bo, "verify_pin") + Is(bi, "verify_pin")
                - Is(ao, "pin_verified") + Is(ai, "pin_verified")
                - Is(ao, "pin_incorrect") + Is(ai, "pin_incorrect")
           /\ Withdrawals' = Withdrawals
                - Is(bo, "withdraw") + Is(bi, "withdraw")
                - Is(ao, "withdraw_ok") + Is(ai, "withdraw_ok")
                - Is(ao, "withdraw_denied") + Is(ai, "withdraw_denied")
           /\ Enquiries' = Enquiries
                - Is(bo, "get_balance") + Is(bi, "get_balance")
                - Is(ao, "balance") + Is(ai, "balance")
           /\ Count("atm", "pin_verified")' = Count("atm", "pin_verified")
                - Is(ao, "pin_verified") + Is(ai, "pin_verified")
           /\ Closings' = Closings
                - Is(bo, "close_queue") + Is(bi, "close_queue")
                - Is(io, "close_queue") + Is(ii, "close_queue")
           /\ InFlight' = InFlight
                - Worth(ao, "withdraw_ok") + Worth(ai, "withdraw_ok")
                - Worth(io, "issue_money") + Worth(ii, "issue_money")
  <1>1. /\ \A type : type # "nothing" =>
               Count("atm", type)' = Count("atm", type) - Is(ao, type) + Is(ai, type)
        /\ \A type : type # "nothing" =>
               Count("bank", type)' = Count("bank", type) - Is(bo, type) + Is(bi, type)
        /\ \A type : type # "nothing" =>
               Count("interface", type)' =
                 Count("interface", type) - Is(io, type) + Is(ii, type)
    BY DoesCounts DEF Traffic, Receivers
  <1>2. AreQueues(queue)'
    BY DoesCounts DEF Traffic, AreQueues, Receivers
  <1>3. \A a, b : Is(a, b) \in {0, 1}
    BY DEF Is
  <1>4. Verifications' = Verifications
          - Is(bo, "verify_pin") + Is(bi, "verify_pin")
          - Is(ao, "pin_verified") + Is(ai, "pin_verified")
          - Is(ao, "pin_incorrect") + Is(ai, "pin_incorrect")
    BY <1>1, <1>3, TotalsAreNats DEF Verifications
  <1>5. Withdrawals' = Withdrawals
          - Is(bo, "withdraw") + Is(bi, "withdraw")
          - Is(ao, "withdraw_ok") + Is(ai, "withdraw_ok")
          - Is(ao, "withdraw_denied") + Is(ai, "withdraw_denied")
    BY <1>1, <1>3, TotalsAreNats DEF Withdrawals
  <1>6. Enquiries' = Enquiries
          - Is(bo, "get_balance") + Is(bi, "get_balance")
          - Is(ao, "balance") + Is(ai, "balance")
    BY <1>1, <1>3, TotalsAreNats DEF Enquiries
  <1>8. Closings' = Closings
          - Is(bo, "close_queue") + Is(bi, "close_queue")
          - Is(io, "close_queue") + Is(ii, "close_queue")
    <2>1. /\ Count("bank", "close_queue") \in Nat
          /\ Count("interface", "close_queue") \in Nat
      BY CountIsNat, ThreeReceivers
    <2> QED
      BY <1>1, <1>3, <2>1 DEF Closings
  <1>7. InFlight' = InFlight
          - Worth(ao, "withdraw_ok") + Worth(ai, "withdraw_ok")
          - Worth(io, "issue_money") + Worth(ii, "issue_money")
    <2>1. /\ Count("atm", "withdraw_ok")' = Count("atm", "withdraw_ok")
               - Is(ao, "withdraw_ok") + Is(ai, "withdraw_ok")
          /\ Count("interface", "issue_money")' = Count("interface", "issue_money")
               - Is(io, "issue_money") + Is(ii, "issue_money")
      BY <1>1
    <2>2. InFlight' = InFlight
            + Amount * (Is(ai, "withdraw_ok") - Is(ao, "withdraw_ok"))
            + Amount * (Is(ii, "issue_money") - Is(io, "issue_money"))
      BY <1>3, <2>1, TotalsAreNats, AmountAssumption DEF InFlight
    <2>3. \A a, b : Amount * Is(a, b) = Worth(a, b)
      BY AmountAssumption DEF Is, Worth
    <2>4. \A a, b, c, d : Amount * (Is(a, b) - Is(c, d)) = Worth(a, b) - Worth(c, d)
      BY <1>3, <2>3, AmountAssumption
    <2>5. \A a, b : Worth(a, b) \in Nat
      BY AmountAssumption DEF Worth
    <2>6. /\ Amount * (Is(ai, "withdraw_ok") - Is(ao, "withdraw_ok"))
               = Worth(ai, "withdraw_ok") - Worth(ao, "withdraw_ok")
          /\ Amount * (Is(ii, "issue_money") - Is(io, "issue_money"))
               = Worth(ii, "issue_money") - Worth(io, "issue_money")
      BY <2>4
    <2> QED
      BY <2>2, <2>5, <2>6, TotalsAreNats
  <1> QED
    BY <1>1, <1>2, <1>4, <1>5, <1>6, <1>7, <1>8

\* A step that asks the bank nothing leaves what it is asked about.
LEMMA TrafficToBank ==
    ASSUME AreQueues(queue),
           NEW ao, NEW ai, NEW bo, NEW bi, NEW io, NEW ii,
           Traffic(ao, ai, bo, bi, io, ii), bi # "verify_pin",
           NEW p, VerifiesOnly(p)
    PROVE  \A i \in DOMAIN queue'["bank"] :
               queue'["bank"][i].type = "verify_pin" => queue'["bank"][i].pin = p
  <1>1. CASE Keeps("bank")
    BY <1>1 DEF VerifiesOnly, Keeps
  <1>2. CASE Pops("bank", bo)
    <2>1. \A i \in DOMAIN queue'["bank"] :
              \E j \in DOMAIN queue["bank"] : queue'["bank"][i] = queue["bank"][j]
      BY <1>2, PopsCounts DEF Receivers
    <2> QED
      BY <2>1 DEF VerifiesOnly
  <1>3. CASE \E m : Pushes("bank", m) /\ m.type = bi
    <2>1. PICK m : Pushes("bank", m) /\ m.type = bi
      BY <1>3
    <2>2. \A i \in DOMAIN queue'["bank"] :
              \/ queue'["bank"][i] = m
              \/ \E j \in DOMAIN queue["bank"] : queue'["bank"][i] = queue["bank"][j]
      BY <2>1, PushesCounts DEF Receivers
    <2> QED
      BY <2>1, <2>2 DEF VerifiesOnly
  <1> QED
    BY <1>1, <1>2, <1>3 DEF Traffic, Does

\* What the screen will show is what was sent to the interface last.
LEMMA TrafficToInterface ==
    ASSUME AreQueues(queue),
           NEW ao, NEW ai, NEW bo, NEW bi, NEW io, NEW ii,
           Traffic(ao, ai, bo, bi, io, ii),
           screen' = IF io = "nothing" THEN screen ELSE io
    PROVE  LastShown' = IF ii = "nothing" THEN LastShown ELSE ii
  <1>1. CASE io = "nothing" /\ ii = "nothing" /\ Keeps("interface")
    BY <1>1 DEF LastShown, Keeps
  <1>2. CASE io # "nothing" /\ ii = "nothing" /\ Pops("interface", io)
    <2>1. queue["interface"] # <<>> /\ Head(queue["interface"]).type = io
      BY <1>2 DEF Pops, Receives
    <2>2. queue["interface"][Len(queue["interface"])] =
            IF queue'["interface"] = <<>> THEN Head(queue["interface"])
            ELSE queue'["interface"][Len(queue'["interface"])]
      BY <1>2, PopsCounts DEF Receivers
    <2> QED
      BY <1>2, <2>1, <2>2 DEF LastShown
  <1>3. CASE /\ io = "nothing" /\ ii # "nothing"
             /\ \E m : Pushes("interface", m) /\ m.type = ii
    <2>1. PICK m : Pushes("interface", m) /\ m.type = ii
      BY <1>3
    <2>2. /\ queue'["interface"] # <<>>
          /\ queue'["interface"][Len(queue'["interface"])] = m
      BY <2>1, PushesCounts DEF Receivers
    <2> QED
      BY <1>3, <2>1, <2>2 DEF LastShown
  <1> QED
    BY <1>1, <1>2, <1>3 DEF Traffic, Does

\* A message that is taken was there, as one of those it is counted with.
LEMMA TakenWasThere ==
    ASSUME AreQueues(queue), NEW r \in Receivers, NEW a, Receives(r, a)
    PROVE  /\ Count(r, a) > 0
           /\ Head(queue[r]) \in Inbox[r]
           /\ \E j \in DOMAIN queue[r] : Head(queue[r]) = queue[r][j]
  <1>1. queue[r] \in Seq(Inbox[r]) /\ queue[r] # <<>> /\ Head(queue[r]).type = a
    BY DEF AreQueues, Receives
  <1>2. /\ Head(queue[r]) \in Inbox[r]
        /\ \E j \in DOMAIN queue[r] : Head(queue[r]) = queue[r][j]
    BY <1>1, TailFacts
  <1> QED
    BY <1>1, <1>2, CountIsNat

-----------------------------------------------------------------------------
(* What the forms of a step do to the queues.                            *)

LEMMA SendTraffic ==
    ASSUME AreQueues(queue),
           NEW x \in Receivers, NEW m \in Inbox[x], m.type # "nothing",
           queue' = Send(queue, x, m)
    PROVE  /\ queue' = [y \in Receivers |-> queue'[y]]
           /\ Does(x, "nothing", m.type)
           /\ \A y \in Receivers \ {x} : Does(y, "nothing", "nothing")
  BY DEF AreQueues, Send, Does, Keeps, Pushes

LEMMA PopTraffic ==
    ASSUME AreQueues(queue),
           NEW r \in Receivers, NEW a, a # "nothing", Receives(r, a),
           queue' = Popped(r)
    PROVE  /\ queue' = [y \in Receivers |-> queue'[y]]
           /\ Does(r, a, "nothing")
           /\ \A y \in Receivers \ {r} : Does(y, "nothing", "nothing")
  BY DEF AreQueues, Popped, Does, Keeps, Pops

LEMMA PopSendTraffic ==
    ASSUME AreQueues(queue),
           NEW r \in Receivers, NEW a, a # "nothing", Receives(r, a),
           NEW x \in Receivers \ {r}, NEW m \in Inbox[x], m.type # "nothing",
           queue' = Send(Popped(r), x, m)
    PROVE  /\ queue' = [y \in Receivers |-> queue'[y]]
           /\ Does(r, a, "nothing")
           /\ Does(x, "nothing", m.type)
           /\ \A y \in Receivers \ {r, x} : Does(y, "nothing", "nothing")
  BY DEF AreQueues, Popped, Send, Does, Keeps, Pops, Pushes

LEMMA PopSendSendTraffic ==
    ASSUME AreQueues(queue),
           NEW r \in Receivers, NEW a, a # "nothing", Receives(r, a),
           NEW x \in Receivers \ {r}, NEW m \in Inbox[x], m.type # "nothing",
           NEW z \in Receivers \ {r, x}, NEW n \in Inbox[z], n.type # "nothing",
           queue' = Send(Send(Popped(r), x, m), z, n)
    PROVE  /\ queue' = [y \in Receivers |-> queue'[y]]
           /\ Does(r, a, "nothing")
           /\ Does(x, "nothing", m.type)
           /\ Does(z, "nothing", n.type)
  BY DEF AreQueues, Popped, Send, Does, Keeps, Pops, Pushes

-----------------------------------------------------------------------------
(* The totals, and what keeps them.                                      *)

Totals == <<Verifications, Withdrawals, Enquiries, Count("atm", "pin_verified"),
            Closings, InFlight>>

\* The messages that are counted.
Counted == {"verify_pin", "pin_verified", "pin_incorrect", "withdraw", "withdraw_ok",
            "withdraw_denied", "get_balance", "balance", "issue_money"}

LEMMA OtherTraffic ==
    ASSUME AreQueues(queue),
           NEW ao, NEW ai, NEW bo, NEW bi, NEW io, NEW ii,
           Traffic(ao, ai, bo, bi, io, ii),
           {ao, ai, bo, bi, io, ii} \cap Counted = {},
           "close_queue" \notin {bo, bi, io, ii}
    PROVE  AreQueues(queue)' /\ UNCHANGED Totals
  <1>1. /\ \A type \in Counted : Is(bo, type) = 0 /\ Is(bi, type) = 0
        /\ Is(bo, "close_queue") = 0 /\ Is(bi, "close_queue") = 0
        /\ Is(io, "close_queue") = 0 /\ Is(ii, "close_queue") = 0
    BY DEF Is
  <1>2. \A type \in Counted : /\ Is(ao, type) = 0 /\ Is(ai, type) = 0
                              /\ Is(io, type) = 0 /\ Is(ii, type) = 0
    BY DEF Is
  <1>3. \A type \in Counted : /\ Worth(ao, type) = 0 /\ Worth(ai, type) = 0
                              /\ Worth(io, type) = 0 /\ Worth(ii, type) = 0
    BY DEF Worth
  <1> QED
    BY <1>1, <1>2, <1>3, TrafficTotals, TotalsAreNats DEF Totals, Counted

\* The prompts and other messages to the interface that carry no amount.
LEMMA Display ==
    \A type \in InterfaceHandles \ {"issue_money", "display_balance"} :
        /\ Msg(type) \in Inbox["interface"]
        /\ Msg(type).type = type
        /\ type # "nothing"
        /\ type \notin Counted
  BY Sendable DEF Msg, InterfaceHandles, Counted

\* A PIN is a sequence of at most PinLen digits.
LEMMA PinsAreSequences ==
    \A p : p \in Pins <=> p \in Seq(Digits) /\ Len(p) <= PinLen
  <1>1. ASSUME NEW p \in Pins
        PROVE  p \in Seq(Digits) /\ Len(p) <= PinLen
    <2>1. PICK n \in 0 .. PinLen : p \in [1 .. n -> Digits]
      BY DEF Pins
    <2> QED
      BY <2>1, PinLenAssumption
  <1>2. ASSUME NEW p \in Seq(Digits), Len(p) <= PinLen
        PROVE  p \in Pins
    <2>1. p \in [1 .. Len(p) -> Digits] /\ Len(p) \in 0 .. PinLen
      BY <1>2, LenProperties, PinLenAssumption
    <2> QED
      BY <2>1 DEF Pins
  <1> QED
    BY <1>1, <1>2

LEMMA PinTypes ==
    /\ <<>> \in Pins /\ Len(<<>>) = 0
    /\ \A p \in Pins :
         /\ Len(p) \in Nat
         /\ Len(p) < PinLen =>
              \A d \in Digits : Append(p, d) \in Pins /\ Len(Append(p, d)) = Len(p) + 1
         /\ p # <<>> => /\ SubSeq(p, 1, Len(p) - 1) \in Pins
                        /\ Len(SubSeq(p, 1, Len(p) - 1)) < Len(p)
  <1>1. <<>> \in Pins /\ Len(<<>>) = 0
    <2>1. <<>> \in Seq(Digits) /\ Len(<<>>) = 0
      BY EmptySeq
    <2>2. 0 <= PinLen
      BY PinLenAssumption
    <2>3. <<>> \in Pins
      BY <2>1, <2>2, PinsAreSequences, Zenon
    <2> QED
      BY <2>1, <2>3
  <1>2. ASSUME NEW p \in Pins
        PROVE  p \in Seq(Digits) /\ Len(p) \in Nat /\ Len(p) <= PinLen
    BY PinsAreSequences, LenProperties
  <1>3. ASSUME NEW p \in Pins, Len(p) < PinLen, NEW d \in Digits
        PROVE  Append(p, d) \in Pins /\ Len(Append(p, d)) = Len(p) + 1
    <2>1. Append(p, d) \in Seq(Digits) /\ Len(Append(p, d)) = Len(p) + 1
      BY <1>2, AppendProperties
    <2>2. Len(p) + 1 <= PinLen
      BY <1>2, <1>3, PinLenAssumption
    <2> QED
      BY <2>1, <2>2, PinsAreSequences
  <1>4. ASSUME NEW p \in Pins, p # <<>>
        PROVE  /\ SubSeq(p, 1, Len(p) - 1) \in Pins
               /\ Len(SubSeq(p, 1, Len(p) - 1)) < Len(p)
    <2> DEFINE n == Len(p) - 1
    <2>1. Len(p) > 0 /\ n \in Int /\ \A i \in 1 .. n : p[i] \in Digits
      BY <1>2, <1>4, EmptySeq, ElementOfSeq
    <2>2. /\ SubSeq(p, 1, n) \in Seq(Digits)
          /\ Len(SubSeq(p, 1, n)) = IF 1 <= n THEN n - 1 + 1 ELSE 0
      <3> HIDE DEF n
      <3> QED
        BY <2>1, SubSeqProperties
    <2>3. n \in Nat /\ n < Len(p) /\ n <= PinLen
      BY <1>2, <2>1, PinLenAssumption
    <2>4. Len(SubSeq(p, 1, n)) = n
      <3> HIDE DEF n
      <3> QED
        BY <2>2, <2>3
    <2> QED
      BY <2>2, <2>3, <2>4, PinsAreSequences
  <1> QED
    BY <1>1, <1>2, <1>3, <1>4


-----------------------------------------------------------------------------
(* The steps of the atm.                                                 *)

OthersRest == UNCHANGED <<bankVars, interfaceVars, driverVars>>

\* The sums of money are numbers.
LEMMA MoneyTypes ==
    ASSUME IInv
    PROVE  /\ balance \in Nat /\ issued \in Nat /\ InFlight \in Nat /\ Charged \in Nat
           /\ issued + InFlight <= Charged
  <1>1. balance \in 0 .. InitialBalance /\ issued \in 0 .. InitialBalance
    BY DEF IInv, ActorsTypeOK
  <1>2. InFlight \in Nat
    BY TotalsAreNats DEF IInv
  <1>3. issued + InFlight <= Charged
    BY DEF IInv, MoneyInv, NoMoneyCreated
  <1> QED
    BY <1>1, <1>2, <1>3, AmountAssumption DEF Charged

\* A step that keeps the totals and asks nothing of the bank.
LEMMA AtmStepThatAsksNothing ==
    ASSUME IInv, OthersRest, UNCHANGED Totals,
           \/ state' = state
           \/ state' \in {"waiting_for_card", "getting_pin", "done_processing"},
           withdrawCancelled' \in {withdrawCancelled, TRUE},
           state = "process_withdraw" /\ state' # state => withdrawCancelled'
    PROVE  AnswersInv' /\ WithdrawalInv' /\ MoneyInv' /\ OpenInv'
  <1>1. AnswersInv'
    BY DEF IInv, AnswersInv, Totals
  <1>2. WithdrawalInv'
    BY DEF IInv, WithdrawalInv, Totals
  <1>3. MoneyInv'
    BY DEF IInv, MoneyInv, NoMoneyCreated, NoMoneyLost, Charged, Totals, OthersRest,
           bankVars, interfaceVars
  <1>4. OpenInv'
    BY DEF IInv, OpenInv, Totals, OthersRest, bankVars, driverVars
  <1> QED
    BY <1>1, <1>2, <1>3, <1>4

LEMMA PromptKeepsIInv ==
    ASSUME IInv, Prompt, OthersRest
    PROVE  IInv'
  <1>1. Traffic("nothing", "nothing", "nothing", "nothing",
              "nothing", PromptOf[state])
    <2>1. PromptOf[state] \in InterfaceHandles \ {"issue_money", "display_balance"}
      BY DEF Prompt, PromptOf, InterfaceHandles
    <2>2. queue' = Send(queue, "interface", Msg(PromptOf[state]))
      BY DEF Prompt
    <2> QED
      BY <2>1, <2>2, ThreeReceivers, Display, SendTraffic DEF IInv, Traffic
  <1>2. AreQueues(queue)' /\ UNCHANGED Totals
    <2>1. PromptOf[state] \notin Counted \cup {"close_queue"}
      BY DEF Prompt, PromptOf, Counted
    <2> QED
      BY <1>1, <2>1, OtherTraffic DEF IInv, Counted
  <1>3. ActorsTypeOK' /\ SessionInv'
    BY DEF IInv, ActorsTypeOK, SessionInv, Prompt, Become, session, cancels, OthersRest,
           bankVars, interfaceVars, driverVars, States, WaitingStates, Handles
  <1>4. AnswersInv' /\ WithdrawalInv' /\ MoneyInv' /\ OpenInv'
    BY <1>2, AtmStepThatAsksNothing DEF Prompt, Takes, Waits, Become, cancels
  <1>5. PinInv'
    BY <1>2 DEF IInv, PinInv, Totals, Prompt, Takes, Waits, Become, session, cancels,
           MenuStates, PromptOf
  <1>6. ScreenInv'
    <2>1. LastShown' = PromptOf[state]
      <3>1. PromptOf[state] # "nothing"
        BY DEF Prompt, PromptOf
      <3> QED
        BY <1>1, <3>1, TrafficToInterface DEF IInv, OthersRest, interfaceVars
    <2> QED
      BY <2>1 DEF IInv, ScreenInv, Prompt, Takes, Waits, Become, OthersRest,
             driverVars, PromptOf
  <1> QED
    BY <1>2, <1>3, <1>4, <1>5, <1>6 DEF IInv

LEMMA DoneProcessingKeepsIInv ==
    ASSUME IInv, DoneProcessing, OthersRest
    PROVE  IInv'
  <1>1. Traffic("nothing", "nothing", "nothing", "nothing",
              "nothing", "eject_card")
    <2>1. "eject_card" \in InterfaceHandles \ {"issue_money", "display_balance"}
      BY DEF InterfaceHandles
    <2>2. queue' = Send(queue, "interface", Msg("eject_card"))
      BY DEF DoneProcessing
    <2> QED
      BY <2>1, <2>2, ThreeReceivers, Display, SendTraffic DEF IInv, Traffic
  <1>2. AreQueues(queue)' /\ UNCHANGED Totals
    BY <1>1, OtherTraffic DEF IInv, Counted
  <1>3. ActorsTypeOK' /\ SessionInv'
    BY DEF IInv, ActorsTypeOK, SessionInv, DoneProcessing, Become, session, cancels,
           OthersRest, bankVars, interfaceVars, driverVars, States, WaitingStates,
           Handles, PromptOf
  <1>4. AnswersInv' /\ WithdrawalInv' /\ MoneyInv' /\ OpenInv'
    BY <1>2, AtmStepThatAsksNothing DEF DoneProcessing, Takes, Waits, Become, cancels
  <1>5. PinInv'
    BY <1>2 DEF IInv, PinInv, Totals, DoneProcessing, Takes, Waits, Become, session,
           cancels, MenuStates
  <1>6. ScreenInv'
    BY DEF ScreenInv, DoneProcessing, Become, IInv, SessionInv, PromptOf
  <1> QED
    BY <1>2, <1>3, <1>4, <1>5, <1>6 DEF IInv

LEMMA CardInsertedKeepsIInv ==
    ASSUME IInv, CardInserted, OthersRest
    PROVE  IInv'
  <1>1. Traffic("card_inserted", "nothing", "nothing", "nothing",
              "nothing", "display_enter_pin")
    <2>1. "display_enter_pin" \in InterfaceHandles \ {"issue_money", "display_balance"}
      BY DEF InterfaceHandles
    <2>2. /\ Receives("atm", "card_inserted")
          /\ queue' = Send(Popped("atm"), "interface", Msg("display_enter_pin"))
      BY DEF CardInserted, Takes, Rest
    <2> QED
      BY <2>1, <2>2, ThreeReceivers, Display, PopSendTraffic DEF IInv, Traffic
  <1>2. AreQueues(queue)' /\ UNCHANGED Totals
    BY <1>1, OtherTraffic DEF IInv, Counted
  <1>3. ActorsTypeOK' /\ SessionInv'
    <2>1. pin' \in Pins /\ Len(pin') < PinLen
      BY PinTypes, PinLenAssumption DEF CardInserted
    <2> QED
      BY <2>1 DEF IInv, ActorsTypeOK, SessionInv, CardInserted, Become, session, cancels,
             OthersRest, bankVars, interfaceVars, driverVars, States,
             WaitingStates, Handles, Pins
  <1>4. AnswersInv' /\ WithdrawalInv' /\ MoneyInv' /\ OpenInv'
    BY <1>2, AtmStepThatAsksNothing DEF CardInserted, Takes, Waits, Become, cancels
  <1>5. PinInv'
    BY <1>2 DEF IInv, PinInv, Totals, CardInserted, Takes, Waits, Become, session,
           cancels, MenuStates
  <1>6. ScreenInv'
    <2>1. LastShown' = "display_enter_pin"
      BY <1>1, TrafficToInterface DEF IInv, OthersRest, interfaceVars
    <2> QED
      BY <2>1 DEF IInv, ScreenInv, CardInserted, Takes, Waits, Become, OthersRest,
             driverVars
  <1> QED
    BY <1>2, <1>3, <1>4, <1>5, <1>6 DEF IInv

LEMMA ClearLastPressedKeepsIInv ==
    ASSUME IInv, ClearLastPressed, OthersRest
    PROVE  IInv'
  <1>1. Traffic("clear_last_pressed", "nothing", "nothing", "nothing",
              "nothing", "nothing")
    <2>1. Receives("atm", "clear_last_pressed") /\ queue' = Popped("atm")
      BY DEF ClearLastPressed, Takes, Rest
    <2> QED
      BY <2>1, ThreeReceivers, PopTraffic DEF IInv, Traffic
  <1>2. AreQueues(queue)' /\ UNCHANGED Totals
    BY <1>1, OtherTraffic DEF IInv, Counted
  <1>3. ActorsTypeOK' /\ SessionInv'
    <2>1. pin' \in Pins /\ Len(pin') < PinLen
      <3>1. pin \in Pins /\ Len(pin) < PinLen
        BY DEF IInv, ActorsTypeOK, SessionInv, ClearLastPressed, Takes, Waits, Pins
      <3> QED
        BY <3>1, PinTypes, PinLenAssumption DEF ClearLastPressed
    <2> QED
      BY <2>1 DEF IInv, ActorsTypeOK, SessionInv, ClearLastPressed, Become, session, cancels,
             OthersRest, bankVars, interfaceVars, driverVars, States,
             WaitingStates, Handles, Pins
  <1>4. AnswersInv' /\ WithdrawalInv' /\ MoneyInv' /\ OpenInv'
    BY <1>2, AtmStepThatAsksNothing DEF ClearLastPressed, Takes, Waits, Become, cancels
  <1>5. PinInv'
    BY <1>2 DEF IInv, PinInv, Totals, ClearLastPressed, Takes, Waits, Become, session,
           cancels, MenuStates
  <1>6. ScreenInv'
    <2>1. LastShown' = LastShown
      BY <1>1, TrafficToInterface DEF IInv, OthersRest, interfaceVars
    <2> QED
      BY <2>1 DEF IInv, ScreenInv, ClearLastPressed, Takes, Waits, Become, OthersRest,
             driverVars
  <1> QED
    BY <1>2, <1>3, <1>4, <1>5, <1>6 DEF IInv

LEMMA PinVerifiedKeepsIInv ==
    ASSUME IInv, PinVerified, OthersRest
    PROVE  IInv'
  <1>1. Traffic("pin_verified", "nothing", "nothing", "nothing",
              "nothing", "nothing")
    <2>1. Receives("atm", "pin_verified") /\ queue' = Popped("atm")
      BY DEF PinVerified, Takes, Rest
    <2> QED
      BY <2>1, ThreeReceivers, PopTraffic DEF IInv, Traffic
  <1>2. /\ AreQueues(queue)'
        /\ Verifications' = Verifications - 1
        /\ UNCHANGED <<Withdrawals, Enquiries, Closings, InFlight>>
    BY <1>1, TrafficTotals, TotalsAreNats, AmountAssumption DEF IInv, Is, Worth
  <1>3. ActorsTypeOK' /\ SessionInv'
    BY DEF IInv, ActorsTypeOK, SessionInv, PinVerified, Become, session, cancels,
           OthersRest, bankVars, interfaceVars, driverVars, States, WaitingStates,
           Handles
  <1>4. AnswersInv' /\ WithdrawalInv' /\ MoneyInv' /\ OpenInv'
    <2>1. AnswersInv'
      BY <1>2, TotalsAreNats DEF IInv, AnswersInv, PinVerified, Become
    <2>2. WithdrawalInv'
      BY <1>2 DEF IInv, WithdrawalInv, PinVerified, Takes, Waits, Become, cancels
    <2>3. MoneyInv'
      BY <1>2 DEF IInv, MoneyInv, NoMoneyCreated, NoMoneyLost, Charged, PinVerified,
             cancels, OthersRest, bankVars, interfaceVars
    <2>4. OpenInv'
      BY <1>2 DEF IInv, OpenInv, OthersRest, bankVars, driverVars
    <2> QED
      BY <2>1, <2>2, <2>3, <2>4
  <1>5. PinInv'
    <2>1. Count("atm", "pin_verified") > 0
      BY TakenWasThere, ThreeReceivers DEF IInv, PinVerified, Takes
    <2> QED
      BY <1>2, <2>1 DEF IInv, PinInv, PinVerified, Takes, Waits, Become, session, cancels
  <1>6. ScreenInv'
    BY DEF ScreenInv, PinVerified, Become
  <1> QED
    BY <1>2, <1>3, <1>4, <1>5, <1>6 DEF IInv

LEMMA PinIncorrectKeepsIInv ==
    ASSUME IInv, PinIncorrect, OthersRest
    PROVE  IInv'
  <1>1. Traffic("pin_incorrect", "nothing", "nothing", "nothing",
              "nothing", "display_pin_incorrect")
    <2>1. "display_pin_incorrect" \in InterfaceHandles \ {"issue_money", "display_balance"}
      BY DEF InterfaceHandles
    <2>2. /\ Receives("atm", "pin_incorrect")
          /\ queue' = Send(Popped("atm"), "interface", Msg("display_pin_incorrect"))
      BY DEF PinIncorrect, Takes, Rest
    <2> QED
      BY <2>1, <2>2, ThreeReceivers, Display, PopSendTraffic DEF IInv, Traffic
  <1>2. /\ AreQueues(queue)'
        /\ Verifications' = Verifications - 1
        /\ UNCHANGED <<Withdrawals, Enquiries, Closings, InFlight>>
    BY <1>1, TrafficTotals, TotalsAreNats, AmountAssumption DEF IInv, Is, Worth
  <1>3. ActorsTypeOK' /\ SessionInv'
    BY DEF IInv, ActorsTypeOK, SessionInv, PinIncorrect, Become, session, cancels,
           OthersRest, bankVars, interfaceVars, driverVars, States, WaitingStates,
           Handles
  <1>4. AnswersInv' /\ WithdrawalInv' /\ MoneyInv' /\ OpenInv'
    <2>1. AnswersInv'
      BY <1>2, TotalsAreNats DEF IInv, AnswersInv, PinIncorrect, Become
    <2>2. WithdrawalInv'
      BY <1>2 DEF IInv, WithdrawalInv, PinIncorrect, Takes, Waits, Become, cancels
    <2>3. MoneyInv'
      BY <1>2 DEF IInv, MoneyInv, NoMoneyCreated, NoMoneyLost, Charged, PinIncorrect,
             cancels, OthersRest, bankVars, interfaceVars
    <2>4. OpenInv'
      BY <1>2 DEF IInv, OpenInv, OthersRest, bankVars, driverVars
    <2> QED
      BY <2>1, <2>2, <2>3, <2>4
  <1>5. PinInv'
    BY <1>2 DEF IInv, PinInv, Totals, PinIncorrect, Takes, Waits, Become, session,
           cancels, MenuStates
  <1>6. ScreenInv'
    BY DEF ScreenInv, PinIncorrect, Become
  <1> QED
    BY <1>2, <1>3, <1>4, <1>5, <1>6 DEF IInv

LEMMA CancelSessionKeepsIInv ==
    ASSUME IInv, CancelSession, OthersRest
    PROVE  IInv'
  <1>1. Traffic("cancel_pressed", "nothing", "nothing", "nothing",
              "nothing", "nothing")
    <2>1. Receives("atm", "cancel_pressed") /\ queue' = Popped("atm")
      BY DEF CancelSession, Takes, Rest
    <2> QED
      BY <2>1, ThreeReceivers, PopTraffic DEF IInv, Traffic
  <1>2. AreQueues(queue)' /\ UNCHANGED Totals
    BY <1>1, OtherTraffic DEF IInv, Counted
  <1>3. ActorsTypeOK' /\ SessionInv'
    BY DEF IInv, ActorsTypeOK, SessionInv, CancelSession, Become, session, cancels,
           OthersRest, bankVars, interfaceVars, driverVars, States, WaitingStates,
           Handles
  <1>4. AnswersInv' /\ WithdrawalInv' /\ MoneyInv' /\ OpenInv'
    BY <1>2, AtmStepThatAsksNothing DEF CancelSession, Takes, Waits, Become, cancels
  <1>5. PinInv'
    BY <1>2 DEF IInv, PinInv, Totals, CancelSession, Takes, Waits, Become, session,
           cancels, MenuStates
  <1>6. ScreenInv'
    BY DEF ScreenInv, CancelSession, Become
  <1> QED
    BY <1>2, <1>3, <1>4, <1>5, <1>6 DEF IInv

LEMMA CloseAtmKeepsIInv ==
    ASSUME IInv, CloseAtm, OthersRest
    PROVE  IInv'
  <1>1. Traffic("close_queue", "nothing", "nothing", "nothing",
              "nothing", "nothing")
    <2>1. Receives("atm", "close_queue") /\ queue' = Popped("atm")
      BY DEF CloseAtm, Closes, Rest
    <2> QED
      BY <2>1, ThreeReceivers, PopTraffic DEF IInv, Traffic
  <1>2. AreQueues(queue)' /\ UNCHANGED Totals
    BY <1>1, OtherTraffic DEF IInv, Counted
  <1>3. ActorsTypeOK' /\ SessionInv'
    BY DEF IInv, ActorsTypeOK, SessionInv, CloseAtm, Become, session, cancels,
           OthersRest, bankVars, interfaceVars, driverVars, States, WaitingStates,
           Handles
  <1>4. AnswersInv' /\ WithdrawalInv' /\ MoneyInv' /\ OpenInv'
    BY <1>2, AtmStepThatAsksNothing DEF CloseAtm, Takes, Waits, Become, cancels
  <1>5. PinInv'
    <2>1. VerifiesOnly(pin) => VerifiesOnly(pin)'
      BY <1>1, TrafficToBank DEF IInv, VerifiesOnly, CloseAtm, session
    <2> QED
      BY <1>2, <2>1 DEF IInv, PinInv, Totals, CloseAtm, Takes, Waits, Become, session,
             cancels, MenuStates
  <1>6. ScreenInv'
    <2>1. LastShown' = LastShown
      BY <1>1, TrafficToInterface DEF IInv, OthersRest, interfaceVars
    <2> QED
      BY <2>1 DEF IInv, ScreenInv, CloseAtm, Takes, Waits, Become, OthersRest,
             driverVars, session
  <1> QED
    BY <1>2, <1>3, <1>4, <1>5, <1>6 DEF IInv

LEMMA WithdrawDeniedKeepsIInv ==
    ASSUME IInv, WithdrawDenied, OthersRest
    PROVE  IInv'
  <1>1. Traffic("withdraw_denied", "nothing", "nothing", "nothing",
              "nothing", "display_insufficient_funds")
    <2>1. "display_insufficient_funds"
            \in InterfaceHandles \ {"issue_money", "display_balance"}
      BY DEF InterfaceHandles
    <2>2. /\ Receives("atm", "withdraw_denied")
          /\ queue' = Send(Popped("atm"), "interface", Msg("display_insufficient_funds"))
      BY DEF WithdrawDenied, Takes, Rest
    <2> QED
      BY <2>1, <2>2, ThreeReceivers, Display, PopSendTraffic DEF IInv, Traffic
  <1>2. /\ AreQueues(queue)'
        /\ Withdrawals' = Withdrawals - 1
        /\ UNCHANGED <<Verifications, Enquiries, Count("atm", "pin_verified"),
                       Closings, InFlight>>
    BY <1>1, TrafficTotals, TotalsAreNats, AmountAssumption DEF IInv, Is, Worth
  <1>3. ActorsTypeOK' /\ SessionInv'
    BY DEF IInv, ActorsTypeOK, SessionInv, WithdrawDenied, Become, session, cancels,
           OthersRest, bankVars, interfaceVars, driverVars, States, WaitingStates,
           Handles
  <1>4. AnswersInv' /\ WithdrawalInv' /\ MoneyInv' /\ OpenInv'
    <2>1. AnswersInv'
      BY <1>2, TotalsAreNats DEF IInv, AnswersInv, WithdrawDenied, Become
    <2>2. WithdrawalInv'
      BY <1>2 DEF IInv, WithdrawalInv, WithdrawDenied, Takes, Waits, Become, cancels
    <2>3. MoneyInv'
      BY <1>2 DEF IInv, MoneyInv, NoMoneyCreated, NoMoneyLost, Charged, WithdrawDenied,
             cancels, OthersRest, bankVars, interfaceVars
    <2>4. OpenInv'
      BY <1>2 DEF IInv, OpenInv, OthersRest, bankVars, driverVars
    <2> QED
      BY <2>1, <2>2, <2>3, <2>4
  <1>5. PinInv'
    BY <1>2 DEF IInv, PinInv, Totals, WithdrawDenied, Takes, Waits, Become, session,
           cancels, MenuStates
  <1>6. ScreenInv'
    BY DEF ScreenInv, WithdrawDenied, Become
  <1> QED
    BY <1>2, <1>3, <1>4, <1>5, <1>6 DEF IInv

LEMMA WithdrawPressedKeepsIInv ==
    ASSUME IInv, WithdrawPressed, OthersRest
    PROVE  IInv'
  <1>1. Traffic("withdraw_pressed", "nothing", "nothing", "withdraw",
              "nothing", "nothing")
    <2>1. Receives("atm", "withdraw_pressed") /\ withdraw_amount' = Amount
      BY TakenWasThere, Carried, ThreeReceivers
         DEF IInv, WithdrawPressed, Takes, Contents, Receives
    <2>2. /\ queue' = Send(Popped("atm"), "bank",
                           [type |-> "withdraw", amount |-> Amount])
          /\ [type |-> "withdraw", amount |-> Amount] \in Inbox["bank"]
      BY <2>1, Sendable DEF WithdrawPressed, Rest
    <2> QED
      BY <2>1, <2>2, ThreeReceivers, PopSendTraffic DEF IInv, Traffic
  <1>2. /\ AreQueues(queue)'
        /\ Withdrawals' = Withdrawals + 1
        /\ UNCHANGED <<Verifications, Enquiries, Count("atm", "pin_verified"),
                       Closings, InFlight>>
    BY <1>1, TrafficTotals, TotalsAreNats, AmountAssumption DEF IInv, Is, Worth
  <1>3. ActorsTypeOK' /\ SessionInv'
    <2>1. withdraw_amount' = Amount
      BY TakenWasThere, Carried, ThreeReceivers
         DEF IInv, WithdrawPressed, Takes, Contents, Receives
    <2> QED
      BY <2>1 DEF IInv, ActorsTypeOK, SessionInv, WithdrawPressed, Become, session, cancels,
             OthersRest, bankVars, interfaceVars, driverVars, States,
             WaitingStates, Handles
  <1>4. AnswersInv' /\ WithdrawalInv' /\ MoneyInv' /\ OpenInv'
    <2>1. AnswersInv'
      BY <1>2, TotalsAreNats DEF IInv, AnswersInv, WithdrawPressed, Become
    <2>2. WithdrawalInv'
      BY <1>2 DEF IInv, WithdrawalInv, WithdrawPressed, Takes, Waits, Become, cancels
    <2>3. MoneyInv'
      BY <1>2 DEF IInv, MoneyInv, NoMoneyCreated, NoMoneyLost, Charged,
             WithdrawPressed, cancels, OthersRest, bankVars, interfaceVars
    <2>4. OpenInv'
      BY <1>2 DEF IInv, OpenInv, OthersRest, bankVars, driverVars
    <2> QED
      BY <2>1, <2>2, <2>3, <2>4
  <1>5. PinInv'
    BY <1>2 DEF IInv, PinInv, Totals, WithdrawPressed, Takes, Waits, Become, session,
           cancels, MenuStates
  <1>6. ScreenInv'
    BY DEF ScreenInv, WithdrawPressed, Become
  <1> QED
    BY <1>2, <1>3, <1>4, <1>5, <1>6 DEF IInv

LEMMA BalancePressedKeepsIInv ==
    ASSUME IInv, BalancePressed, OthersRest
    PROVE  IInv'
  <1>1. Traffic("balance_pressed", "nothing", "nothing", "get_balance",
              "nothing", "nothing")
    <2>1. /\ Receives("atm", "balance_pressed")
          /\ queue' = Send(Popped("atm"), "bank", Msg("get_balance"))
          /\ Msg("get_balance") \in Inbox["bank"] /\ Msg("get_balance").type = "get_balance"
      BY Sendable DEF BalancePressed, Takes, Rest, Msg
    <2> QED
      BY <2>1, ThreeReceivers, PopSendTraffic DEF IInv, Traffic
  <1>2. /\ AreQueues(queue)'
        /\ Enquiries' = Enquiries + 1
        /\ UNCHANGED <<Verifications, Withdrawals, Count("atm", "pin_verified"),
                       Closings, InFlight>>
    BY <1>1, TrafficTotals, TotalsAreNats, AmountAssumption DEF IInv, Is, Worth
  <1>3. ActorsTypeOK' /\ SessionInv'
    BY DEF IInv, ActorsTypeOK, SessionInv, BalancePressed, Become, session, cancels,
           OthersRest, bankVars, interfaceVars, driverVars, States, WaitingStates,
           Handles
  <1>4. AnswersInv' /\ WithdrawalInv' /\ MoneyInv' /\ OpenInv'
    <2>1. AnswersInv'
      BY <1>2, TotalsAreNats DEF IInv, AnswersInv, BalancePressed, Become
    <2>2. WithdrawalInv'
      BY <1>2 DEF IInv, WithdrawalInv, BalancePressed, Takes, Waits, Become, cancels
    <2>3. MoneyInv'
      BY <1>2 DEF IInv, MoneyInv, NoMoneyCreated, NoMoneyLost, Charged, BalancePressed,
             cancels, OthersRest, bankVars, interfaceVars
    <2>4. OpenInv'
      BY <1>2 DEF IInv, OpenInv, OthersRest, bankVars, driverVars
    <2> QED
      BY <2>1, <2>2, <2>3, <2>4
  <1>5. PinInv'
    BY <1>2 DEF IInv, PinInv, Totals, BalancePressed, Takes, Waits, Become, session,
           cancels, MenuStates
  <1>6. ScreenInv'
    BY DEF ScreenInv, BalancePressed, Become
  <1> QED
    BY <1>2, <1>3, <1>4, <1>5, <1>6 DEF IInv

LEMMA WithdrawOkKeepsIInv ==
    ASSUME IInv, WithdrawOk, OthersRest
    PROVE  IInv'
  <1>1. Traffic("withdraw_ok", "nothing", "nothing", "withdraw_processed",
              "nothing", "issue_money")
    <2> DEFINE m == [type |-> "issue_money", amount |-> Amount]
               n == [type |-> "withdraw_processed", amount |-> Amount]
    <2>1. withdraw_amount = Amount /\ Receives("atm", "withdraw_ok")
      BY DEF IInv, SessionInv, WithdrawOk, Takes, Waits
    <2>2. m \in Inbox["interface"] /\ n \in Inbox["bank"]
      BY Sendable
    <2>3. queue' = Send(Send(Popped("atm"), "interface", m), "bank", n)
      BY <2>1 DEF WithdrawOk, Rest
    <2> QED
      BY <2>1, <2>2, <2>3, ThreeReceivers, PopSendSendTraffic DEF IInv, Traffic
  <1>2. /\ AreQueues(queue)'
        /\ Withdrawals' = Withdrawals - 1
        /\ UNCHANGED <<Verifications, Enquiries, Count("atm", "pin_verified"),
                       Closings, InFlight>>
    BY <1>1, TrafficTotals, TotalsAreNats, AmountAssumption DEF IInv, Is, Worth
  <1>3. ActorsTypeOK' /\ SessionInv'
    BY DEF IInv, ActorsTypeOK, SessionInv, WithdrawOk, Become, session, cancels,
           OthersRest, bankVars, interfaceVars, driverVars, States, WaitingStates,
           Handles
  <1>4. AnswersInv' /\ WithdrawalInv' /\ MoneyInv' /\ OpenInv'
    <2>1. AnswersInv'
      BY <1>2, TotalsAreNats DEF IInv, AnswersInv, WithdrawOk, Become
    <2>2. WithdrawalInv'
      BY <1>2 DEF IInv, WithdrawalInv, WithdrawOk, Takes, Waits, Become, cancels
    <2>3. MoneyInv'
      BY <1>2 DEF IInv, MoneyInv, NoMoneyCreated, NoMoneyLost, Charged, WithdrawOk,
             cancels, OthersRest, bankVars, interfaceVars
    <2>4. OpenInv'
      BY <1>2 DEF IInv, OpenInv, OthersRest, bankVars, driverVars
    <2> QED
      BY <2>1, <2>2, <2>3, <2>4
  <1>5. PinInv'
    BY <1>2 DEF IInv, PinInv, Totals, WithdrawOk, Takes, Waits, Become, session,
           cancels, MenuStates
  <1>6. ScreenInv'
    BY DEF ScreenInv, WithdrawOk, Become
  <1> QED
    BY <1>2, <1>3, <1>4, <1>5, <1>6 DEF IInv

LEMMA CancelWithdrawalKeepsIInv ==
    ASSUME IInv, CancelWithdrawal, OthersRest
    PROVE  IInv'
  <1>1. Traffic("cancel_pressed", "nothing", "nothing", "cancel_withdraw",
              "nothing", "display_withdraw_cancelled")
    <2> DEFINE m == [type |-> "cancel_withdraw", amount |-> Amount]
               n == Msg("display_withdraw_cancelled")
    <2>1. withdraw_amount = Amount /\ Receives("atm", "cancel_pressed")
      BY DEF IInv, SessionInv, CancelWithdrawal, Takes, Waits
    <2>2. /\ m \in Inbox["bank"] /\ n \in Inbox["interface"]
          /\ n.type = "display_withdraw_cancelled"
      BY Sendable, Display DEF InterfaceHandles
    <2>3. queue' = Send(Send(Popped("atm"), "bank", m), "interface", n)
      BY <2>1 DEF CancelWithdrawal, Rest
    <2> QED
      BY <2>1, <2>2, <2>3, ThreeReceivers, PopSendSendTraffic DEF IInv, Traffic
  <1>2. AreQueues(queue)' /\ UNCHANGED Totals
    BY <1>1, OtherTraffic DEF IInv, Counted
  <1>3. ActorsTypeOK' /\ SessionInv'
    BY DEF IInv, ActorsTypeOK, SessionInv, CancelWithdrawal, Become, session, cancels,
           OthersRest, bankVars, interfaceVars, driverVars, States, WaitingStates,
           Handles
  <1>4. AnswersInv' /\ WithdrawalInv' /\ MoneyInv' /\ OpenInv'
    BY <1>2, AtmStepThatAsksNothing DEF CancelWithdrawal, Takes, Waits, Become, cancels
  <1>5. PinInv'
    BY <1>2 DEF IInv, PinInv, Totals, CancelWithdrawal, Takes, Waits, Become, session,
           cancels, MenuStates
  <1>6. ScreenInv'
    BY DEF ScreenInv, CancelWithdrawal, Become
  <1> QED
    BY <1>2, <1>3, <1>4, <1>5, <1>6 DEF IInv

LEMMA ShowBalanceKeepsIInv ==
    ASSUME IInv, ShowBalance, OthersRest
    PROVE  IInv'
  <1>1. Traffic("balance", "nothing", "nothing", "nothing",
              "nothing", "display_balance")
    <2> DEFINE m == [type |-> "display_balance", amount |-> Contents.amount]
    <2>1. Receives("atm", "balance") /\ Contents.amount \in 0 .. InitialBalance
      BY TakenWasThere, Carried, ThreeReceivers
         DEF IInv, ShowBalance, Takes, Contents, Receives
    <2>2. m \in Inbox["interface"] /\ queue' = Send(Popped("atm"), "interface", m)
      BY <2>1, Sendable DEF ShowBalance, Rest
    <2> QED
      BY <2>1, <2>2, ThreeReceivers, PopSendTraffic DEF IInv, Traffic
  <1>2. /\ AreQueues(queue)'
        /\ Enquiries' = Enquiries - 1
        /\ UNCHANGED <<Verifications, Withdrawals, Count("atm", "pin_verified"),
                       Closings, InFlight>>
    <2>1. AreQueues(queue)' /\ Enquiries' = Enquiries - 1
      BY <1>1, TrafficTotals, TotalsAreNats DEF IInv, Is
    <2>2. UNCHANGED <<Verifications, Withdrawals, Count("atm", "pin_verified"), Closings>>
      BY <1>1, TrafficTotals, TotalsAreNats DEF IInv, Is
    <2>3. InFlight' = InFlight
      BY <1>1, TrafficTotals, TotalsAreNats DEF IInv, Worth
    <2> QED
      BY <2>1, <2>2, <2>3
  <1>3. ActorsTypeOK' /\ SessionInv'
    BY DEF IInv, ActorsTypeOK, SessionInv, ShowBalance, Become, session, cancels,
           OthersRest, bankVars, interfaceVars, driverVars, States, WaitingStates,
           Handles
  <1>4. AnswersInv' /\ WithdrawalInv' /\ MoneyInv' /\ OpenInv'
    <2>1. AnswersInv'
      BY <1>2, TotalsAreNats DEF IInv, AnswersInv, ShowBalance, Become
    <2>2. WithdrawalInv'
      BY <1>2 DEF IInv, WithdrawalInv, ShowBalance, Takes, Waits, Become, cancels
    <2>3. MoneyInv'
      BY <1>2 DEF IInv, MoneyInv, NoMoneyCreated, NoMoneyLost, Charged, ShowBalance,
             cancels, OthersRest, bankVars, interfaceVars
    <2>4. OpenInv'
      BY <1>2 DEF IInv, OpenInv, OthersRest, bankVars, driverVars
    <2> QED
      BY <2>1, <2>2, <2>3, <2>4
  <1>5. PinInv'
    BY <1>2 DEF IInv, PinInv, Totals, ShowBalance, Takes, Waits, Become, session,
           cancels, MenuStates
  <1>6. ScreenInv'
    BY DEF ScreenInv, ShowBalance, Become
  <1> QED
    BY <1>2, <1>3, <1>4, <1>5, <1>6 DEF IInv

LEMMA DigitPressesKeepsIInv ==
    ASSUME IInv, DigitPresses, OthersRest
    PROVE  IInv'
  <1>1. /\ Receives("atm", "digit_presses") /\ state = "getting_pin"
        /\ pin \in Pins /\ Len(pin) < PinLen
        /\ pin' \in Pins /\ Len(pin') \in Nat /\ Len(pin') <= PinLen
    <2>1. Receives("atm", "digit_presses") /\ Contents.digit \in Digits
      BY TakenWasThere, Carried, ThreeReceivers
         DEF IInv, DigitPresses, Takes, Contents, Receives
    <2>2. state = "getting_pin" /\ pin \in Pins /\ Len(pin) < PinLen
      BY DEF IInv, ActorsTypeOK, SessionInv, DigitPresses, Takes, Waits, Pins
    <2>3. pin' \in Pins /\ Len(pin') = Len(pin) + 1 /\ Len(pin) \in Nat
      BY <2>1, <2>2, PinTypes DEF DigitPresses
    <2> QED
      BY <2>1, <2>2, <2>3, PinLenAssumption
  <1>2. CASE Len(pin') # PinLen
    <2>1. Traffic("digit_presses", "nothing", "nothing", "nothing",
                  "nothing", "nothing")
      <3>1. queue' = Popped("atm")
        BY <1>2 DEF DigitPresses, Rest
      <3> QED
        BY <1>1, <3>1, ThreeReceivers, PopTraffic DEF IInv, Traffic
    <2>2. AreQueues(queue)' /\ UNCHANGED Totals
      BY <2>1, OtherTraffic DEF IInv, Counted
    <2>3. Len(pin') < PinLen /\ state' = state /\ prompted' = FALSE
      BY <1>1, <1>2, PinLenAssumption DEF DigitPresses, Become
    <2>4. ActorsTypeOK' /\ SessionInv'
      BY <1>1, <2>3 DEF IInv, ActorsTypeOK, SessionInv, DigitPresses, cancels, OthersRest,
             bankVars, interfaceVars, driverVars, Pins
    <2>5. AnswersInv' /\ WithdrawalInv' /\ MoneyInv' /\ OpenInv'
      BY <2>2, <2>3, AtmStepThatAsksNothing DEF DigitPresses, cancels
    <2>6. PinInv'
      BY <1>1, <2>2, <2>3 DEF IInv, PinInv, Totals, DigitPresses, cancels, MenuStates
    <2>7. ScreenInv'
      <3>1. LastShown' = LastShown
        BY <2>1, TrafficToInterface DEF IInv, OthersRest, interfaceVars
      <3> QED
        BY <2>3, <3>1 DEF IInv, ScreenInv, OthersRest, driverVars
    <2> QED
      BY <2>2, <2>4, <2>5, <2>6, <2>7 DEF IInv
  <1>3. CASE Len(pin') = PinLen
    <2> DEFINE m == [type |-> "verify_pin", pin |-> pin']
    <2>1. queue' = Send(Popped("atm"), "bank", m) /\ m \in Inbox["bank"]
      BY <1>1, <1>3, Sendable DEF DigitPresses, Rest
    <2>2. Traffic("digit_presses", "nothing", "nothing", "verify_pin",
                  "nothing", "nothing")
      BY <1>1, <2>1, ThreeReceivers, PopSendTraffic DEF IInv, Traffic
    <2>3. /\ AreQueues(queue)'
          /\ Verifications' = Verifications + 1
          /\ UNCHANGED <<Withdrawals, Enquiries, Count("atm", "pin_verified"),
                         Closings, InFlight>>
      <3>1. AreQueues(queue)' /\ Verifications' = Verifications + 1
        BY <2>2, TrafficTotals, TotalsAreNats DEF IInv, Is
      <3>2. UNCHANGED <<Withdrawals, Enquiries, Count("atm", "pin_verified"), Closings>>
        BY <2>2, TrafficTotals, TotalsAreNats DEF IInv, Is
      <3>3. InFlight' = InFlight
        BY <2>2, TrafficTotals, TotalsAreNats DEF IInv, Worth
      <3> QED
        BY <3>1, <3>2, <3>3
    <2>4. state' = "verifying_pin" /\ prompted' = FALSE
      BY <1>3 DEF DigitPresses, Become
    <2>5. ActorsTypeOK' /\ SessionInv'
      BY <1>1, <2>4 DEF IInv, ActorsTypeOK, SessionInv, DigitPresses, cancels, OthersRest,
             bankVars, interfaceVars, driverVars, Pins, States, WaitingStates, Handles
    <2>6. AnswersInv'
      BY <2>3, <2>4, TotalsAreNats DEF IInv, AnswersInv
    <2>7. WithdrawalInv' /\ OpenInv'
      BY <1>1, <2>3, <2>4 DEF IInv, WithdrawalInv, OpenInv, DigitPresses, cancels,
             OthersRest, bankVars, driverVars
    <2>8. MoneyInv'
      BY <2>3 DEF IInv, MoneyInv, NoMoneyCreated, NoMoneyLost, Charged, DigitPresses,
             cancels, OthersRest, bankVars, interfaceVars
    <2>9. PinInv'
      <3>1. ASSUME ~verifyCancelled
            PROVE  Verifications = 0 /\ Count("atm", "pin_verified") = 0
                     /\ Count("bank", "verify_pin") = 0
        BY <1>1, <3>1, TotalsAreNats DEF IInv, PinInv, Verifications
      <3>2. ASSUME ~verifyCancelled
            PROVE  VerifiesOnly(pin)'
        <4>1. \A i \in DOMAIN queue["bank"] : queue["bank"][i].type # "verify_pin"
          BY <3>1, <3>2, CountIsNat, ThreeReceivers DEF IInv
        <4>2. queue'["bank"] = Append(queue["bank"], m)
          BY <2>1, ThreeReceivers DEF IInv, AreQueues, Send, Popped
        <4>3. \A i \in DOMAIN queue'["bank"] :
                  \/ queue'["bank"][i] = m
                  \/ \E j \in DOMAIN queue["bank"] : queue'["bank"][i] = queue["bank"][j]
          BY <2>1, <4>2, ThreeReceivers, AppendFacts DEF IInv, AreQueues
        <4> QED
          BY <4>1, <4>3 DEF VerifiesOnly
      <3> QED
        BY <2>3, <2>4, <3>1, <3>2 DEF PinInv, MenuStates, DigitPresses, cancels
    <2>10. ScreenInv'
      BY <2>4 DEF ScreenInv
    <2> QED
      BY <2>3, <2>5, <2>6, <2>7, <2>8, <2>9, <2>10 DEF IInv
  <1> QED
    BY <1>2, <1>3

\* A message that is dropped is not one the atm waits for.
LEMMA DropMessageKeepsIInv ==
    ASSUME IInv, DropMessage, OthersRest
    PROVE  IInv'
  <1> DEFINE type == Head(queue["atm"]).type
  <1>1. /\ state \in WaitingStates /\ type \notin Handles[state] \cup {"close_queue"}
        /\ Receives("atm", type) /\ queue' = Popped("atm")
        /\ UNCHANGED <<state, session,
                       cancels>> /\ prompted' = FALSE /\ atmRuns' = atmRuns
    BY DEF DropMessage, Waits, Drops, Receives, Rest
  <1>2. type # "nothing" /\ Count("atm", type) > 0
    <2>1. Head(queue["atm"]) \in Inbox["atm"] /\ Count("atm", type) > 0
      BY <1>1, TakenWasThere, ThreeReceivers DEF IInv
    <2>2. \A m \in AtmMessages : m.type # "nothing"
      BY DEF AtmMessages, DriverKeys, Digit, withdraw_pressed, Msg, close_queue
    <2> QED
      BY <2>1, <2>2 DEF Inbox
  <1> HIDE DEF type
  <1>3. Traffic(type, "nothing", "nothing", "nothing", "nothing", "nothing")
    BY <1>1, <1>2, ThreeReceivers, PopTraffic DEF IInv, Traffic
  <1>4. /\ AreQueues(queue)'
        /\ Verifications'
             = Verifications - Is(type, "pin_verified") - Is(type, "pin_incorrect")
        /\ Withdrawals'
             = Withdrawals - Is(type, "withdraw_ok") - Is(type, "withdraw_denied")
        /\ Enquiries' = Enquiries - Is(type, "balance")
        /\ Count("atm", "pin_verified")'
             = Count("atm", "pin_verified") - Is(type, "pin_verified")
        /\ Closings' = Closings
        /\ InFlight' = InFlight - Worth(type, "withdraw_ok")
    BY <1>3, TrafficTotals, TotalsAreNats, AmountAssumption DEF IInv, Is, Worth
  <1>5. ActorsTypeOK' /\ SessionInv'
    BY <1>1 DEF IInv, ActorsTypeOK, SessionInv, session, cancels, OthersRest, bankVars,
           interfaceVars, driverVars
  <1>6. /\ state = "verifying_pin" => type \notin {"pin_verified", "pin_incorrect"}
        /\ state = "process_withdraw" => type \notin {"withdraw_ok", "withdraw_denied"}
        /\ state = "process_balance" => type # "balance"
    BY <1>1 DEF Handles
  <1>7. /\ ~verifyCancelled => type \notin {"pin_verified", "pin_incorrect"}
        /\ ~withdrawCancelled => type \notin {"withdraw_ok", "withdraw_denied"}
    <2>1. ASSUME ~verifyCancelled, state # "verifying_pin"
          PROVE  Count("atm", "pin_verified") = 0 /\ Count("atm", "pin_incorrect") = 0
      BY <2>1, TotalsAreNats DEF IInv, PinInv, Verifications
    <2>2. ASSUME ~withdrawCancelled, state # "process_withdraw"
          PROVE  Count("atm", "withdraw_ok") = 0 /\ Count("atm", "withdraw_denied") = 0
      BY <2>2, TotalsAreNats DEF IInv, WithdrawalInv, Withdrawals
    <2> QED
      BY <1>2, <1>6, <2>1, <2>2
  <1>8. AnswersInv'
    BY <1>1, <1>4, <1>6, TotalsAreNats DEF IInv, AnswersInv, Is
  <1>9. WithdrawalInv' /\ OpenInv'
    <2>1. ~withdrawCancelled => Withdrawals' = Withdrawals
      BY <1>4, <1>7, TotalsAreNats DEF IInv, Is
    <2> QED
      BY <1>1, <1>4, <2>1 DEF IInv, WithdrawalInv, OpenInv, cancels, OthersRest,
             bankVars, driverVars
  <1>10. PinInv'
    <2>1. VerifiesOnly(pin) => VerifiesOnly(pin)'
      BY <1>1, <1>3, TrafficToBank DEF IInv, VerifiesOnly, session
    <2>2. ~verifyCancelled => UNCHANGED <<Verifications, Count("atm", "pin_verified")>>
      BY <1>4, <1>7, TotalsAreNats DEF IInv, Is
    <2> QED
      BY <1>1, <2>1, <2>2 DEF IInv, PinInv, session, cancels, MenuStates
  <1>11. MoneyInv'
    <2>1. /\ InFlight' <= InFlight
          /\ ~withdrawCancelled => InFlight' = InFlight
      BY <1>4, <1>7, TotalsAreNats, AmountAssumption DEF IInv, Worth
    <2>2. issued' = issued /\ Charged' = Charged /\ withdrawCancelled' = withdrawCancelled
      BY <1>1 DEF Charged, cancels, OthersRest, bankVars, interfaceVars
    <2>4. InFlight' \in Int
      BY <1>4, TotalsAreNats, AmountAssumption DEF IInv, Worth
    <2>5. NoMoneyCreated'
      BY <2>1, <2>2, <2>4, MoneyTypes DEF NoMoneyCreated
    <2>6. NoMoneyLost'
      BY <2>1, <2>2 DEF IInv, MoneyInv, NoMoneyLost
    <2> QED
      BY <2>5, <2>6 DEF MoneyInv
  <1>12. ScreenInv'
    <2>1. LastShown' = LastShown
      BY <1>3, TrafficToInterface DEF IInv, OthersRest, interfaceVars
    <2> QED
      BY <1>1, <2>1 DEF IInv, ScreenInv, OthersRest, driverVars
  <1> QED
    BY <1>4, <1>5, <1>8, <1>9, <1>10, <1>11, <1>12 DEF IInv

-----------------------------------------------------------------------------
(* The steps of the bank.                                                *)

AtmRests == UNCHANGED <<atmVars, interfaceVars, driverVars>>

\* A step of the bank that keeps the totals.
LEMMA BankStepThatAnswersNothing ==
    ASSUME IInv, AtmRests, UNCHANGED <<balance, bankRuns>>,
           NEW type, type \notin Counted, type \notin {"nothing", "close_queue"},
           Receives("bank", type), queue' = Popped("bank")
    PROVE  IInv'
  <1>1. Traffic("nothing", "nothing", type, "nothing", "nothing", "nothing")
    BY ThreeReceivers, PopTraffic DEF IInv, Traffic
  <1>2. AreQueues(queue)' /\ UNCHANGED Totals
    BY <1>1, OtherTraffic DEF IInv, Counted
  <1>3. ActorsTypeOK' /\ SessionInv'
    BY DEF IInv, ActorsTypeOK, SessionInv, AtmRests, atmVars, interfaceVars, driverVars
  <1>4. AnswersInv' /\ WithdrawalInv' /\ OpenInv'
    BY <1>2 DEF IInv, AnswersInv, WithdrawalInv, OpenInv, Totals, AtmRests, atmVars,
           driverVars
  <1>5. PinInv'
    <2>1. VerifiesOnly(pin) => VerifiesOnly(pin)'
      BY <1>1, TrafficToBank DEF IInv, VerifiesOnly, AtmRests, atmVars
    <2> QED
      BY <1>2, <2>1 DEF IInv, PinInv, Totals, AtmRests, atmVars, MenuStates
  <1>6. MoneyInv'
    BY <1>2 DEF IInv, MoneyInv, NoMoneyCreated, NoMoneyLost, Charged, Totals, AtmRests,
           atmVars, interfaceVars
  <1>7. ScreenInv'
    <2>1. LastShown' = LastShown
      BY <1>1, TrafficToInterface DEF IInv, AtmRests, interfaceVars
    <2> QED
      BY <2>1 DEF IInv, ScreenInv, AtmRests, atmVars, driverVars
  <1> QED
    BY <1>2, <1>3, <1>4, <1>5, <1>6, <1>7 DEF IInv

LEMMA VerifyPinKeepsIInv ==
    ASSUME IInv, VerifyPin, AtmRests
    PROVE  IInv'
  <1> DEFINE asked == Head(queue["bank"]).pin
             answer == IF IsRight(asked) THEN "pin_verified" ELSE "pin_incorrect"
  <1>1. Traffic("nothing", answer, "verify_pin", "nothing", "nothing", "nothing")
    <2>1. /\ Receives("bank", "verify_pin")
          /\ queue' = Send(Popped("bank"), "atm", Msg(answer))
      BY DEF VerifyPin
    <2>2. Msg(answer) \in Inbox["atm"] /\ Msg(answer).type = answer /\ answer # "nothing"
      BY Sendable DEF Msg
    <2> HIDE DEF answer
    <2> QED
      BY <2>1, <2>2, ThreeReceivers, PopSendTraffic DEF IInv, Traffic
  <1>2. /\ answer \in {"pin_verified", "pin_incorrect"}
        /\ answer = "pin_verified" => IsRight(asked)
    OBVIOUS
  <1>3. ~verifyCancelled /\ state = "verifying_pin" => asked = pin
    <2>1. /\ \E j \in DOMAIN queue["bank"] : Head(queue["bank"]) = queue["bank"][j]
          /\ Head(queue["bank"]).type = "verify_pin"
      BY TakenWasThere, ThreeReceivers DEF IInv, VerifyPin, Receives
    <2> QED
      BY <2>1 DEF IInv, PinInv, VerifiesOnly
  <1>4. /\ AreQueues(queue)'
        /\ UNCHANGED <<Verifications, Withdrawals, Enquiries,
                       Closings, InFlight>>
        /\ answer = "pin_incorrect" => UNCHANGED Count("atm", "pin_verified")
    <2> HIDE DEF answer
    <2> QED
      BY <1>1, <1>2, TrafficTotals, TotalsAreNats, AmountAssumption DEF IInv, Is, Worth
  <1>5. ActorsTypeOK' /\ SessionInv'
    BY DEF IInv, ActorsTypeOK, SessionInv, VerifyPin, bankVars, AtmRests, atmVars,
           interfaceVars,
           driverVars
  <1>6. AnswersInv' /\ WithdrawalInv' /\ OpenInv'
    BY <1>4 DEF IInv, AnswersInv, WithdrawalInv, OpenInv, VerifyPin, bankVars, AtmRests,
           atmVars, driverVars
  <1>7. PinInv'
    <2>1. VerifiesOnly(pin) => VerifiesOnly(pin)'
      BY <1>1, TrafficToBank DEF IInv, VerifiesOnly, AtmRests, atmVars
    <2>2. ~verifyCancelled /\ state = "verifying_pin" /\ answer = "pin_verified"
            => IsRight(pin)
      BY <1>2, <1>3
    <2> HIDE DEF answer
    <2> QED
      BY <1>2, <1>4, <2>1, <2>2 DEF IInv, PinInv, AtmRests, atmVars, MenuStates, IsRight
  <1>8. MoneyInv'
    BY <1>4 DEF IInv, MoneyInv, NoMoneyCreated, NoMoneyLost, Charged, VerifyPin, bankVars,
           AtmRests, atmVars, interfaceVars
  <1>9. ScreenInv'
    <2>1. LastShown' = LastShown
      BY <1>1, TrafficToInterface DEF IInv, AtmRests, interfaceVars
    <2> QED
      BY <2>1 DEF IInv, ScreenInv, AtmRests, atmVars, driverVars
  <1> QED
    BY <1>4, <1>5, <1>6, <1>7, <1>8, <1>9 DEF IInv

\* What the bank charges is then on its way to the atm.
LEMMA WithdrawKeepsIInv ==
    ASSUME IInv, Withdraw, AtmRests
    PROVE  IInv'
  <1> DEFINE answer == IF balance >= Amount THEN "withdraw_ok" ELSE "withdraw_denied"
  <1>1. /\ Receives("bank", "withdraw")
        /\ queue' = Send(Popped("bank"), "atm", Msg(answer))
        /\ balance' = IF answer = "withdraw_ok" THEN balance - Amount ELSE balance
        /\ answer = "withdraw_ok" => balance >= Amount
    <2>1. Receives("bank", "withdraw") /\ Head(queue["bank"]).amount = Amount
      BY TakenWasThere, Carried, ThreeReceivers DEF IInv, Withdraw, Receives
    <2> QED
      BY <2>1 DEF Withdraw
  <1>2. answer \in {"withdraw_ok", "withdraw_denied"}
    OBVIOUS
  <1> HIDE DEF answer
  <1>3. Traffic("nothing", answer, "withdraw", "nothing", "nothing", "nothing")
    <2>1. Msg(answer) \in Inbox["atm"] /\ Msg(answer).type = answer /\ answer # "nothing"
      BY <1>2, Sendable DEF Msg
    <2> QED
      BY <1>1, <2>1, ThreeReceivers, PopSendTraffic DEF IInv, Traffic
  <1>4. /\ AreQueues(queue)'
        /\ UNCHANGED <<Verifications, Withdrawals, Enquiries,
                       Count("atm", "pin_verified"),
                       Closings>>
        /\ InFlight' = InFlight + Worth(answer, "withdraw_ok")
    BY <1>2, <1>3, TrafficTotals, TotalsAreNats, AmountAssumption DEF IInv, Is, Worth
  <1>5. /\ balance' \in 0 .. InitialBalance
        /\ Charged' = Charged + Worth(answer, "withdraw_ok")
    <2>1. balance \in 0 .. InitialBalance
      BY DEF IInv, ActorsTypeOK
    <2> QED
      BY <1>1, <2>1, AmountAssumption DEF Charged, Worth
  <1>6. ActorsTypeOK' /\ SessionInv'
    BY <1>5 DEF IInv, ActorsTypeOK, SessionInv, Withdraw, AtmRests, atmVars, interfaceVars,
           driverVars
  <1>7. AnswersInv' /\ WithdrawalInv' /\ OpenInv'
    BY <1>4 DEF IInv, AnswersInv, WithdrawalInv, OpenInv, Withdraw, AtmRests, atmVars,
           driverVars
  <1>8. PinInv'
    <2>1. VerifiesOnly(pin) => VerifiesOnly(pin)'
      BY <1>3, TrafficToBank DEF IInv, VerifiesOnly, AtmRests, atmVars
    <2> QED
      BY <1>4, <2>1 DEF IInv, PinInv, AtmRests, atmVars, MenuStates
  <1>9. MoneyInv'
    <2>1. issued' = issued /\ withdrawCancelled' = withdrawCancelled
      BY DEF AtmRests, atmVars, interfaceVars
    <2>2. Worth(answer, "withdraw_ok") \in Nat
      BY AmountAssumption DEF Worth
    <2>3. NoMoneyCreated'
      BY <1>4, <1>5, <2>1, <2>2, MoneyTypes DEF NoMoneyCreated
    <2>4. NoMoneyLost'
      BY <1>4, <1>5, <2>1, <2>2, MoneyTypes DEF IInv, MoneyInv, NoMoneyLost
    <2> QED
      BY <2>3, <2>4 DEF MoneyInv
  <1>10. ScreenInv'
    <2>1. LastShown' = LastShown
      BY <1>3, TrafficToInterface DEF IInv, AtmRests, interfaceVars
    <2> QED
      BY <2>1 DEF IInv, ScreenInv, AtmRests, atmVars, driverVars
  <1> QED
    BY <1>4, <1>6, <1>7, <1>8, <1>9, <1>10 DEF IInv

LEMMA GetBalanceKeepsIInv ==
    ASSUME IInv, GetBalance, AtmRests
    PROVE  IInv'
  <1> DEFINE m == [type |-> "balance", amount |-> balance]
  <1>1. Traffic("nothing", "balance", "get_balance", "nothing", "nothing", "nothing")
    <2>1. Receives("bank", "get_balance") /\ queue' = Send(Popped("bank"), "atm", m)
      BY DEF GetBalance
    <2>2. m \in Inbox["atm"]
      BY Sendable DEF IInv, ActorsTypeOK
    <2> QED
      BY <2>1, <2>2, ThreeReceivers, PopSendTraffic DEF IInv, Traffic
  <1>2. /\ AreQueues(queue)'
        /\ UNCHANGED <<Verifications, Withdrawals, Enquiries,
                       Count("atm", "pin_verified"),
                       Closings, InFlight>>
    BY <1>1, TrafficTotals, TotalsAreNats, AmountAssumption DEF IInv, Is, Worth
  <1>3. ActorsTypeOK' /\ SessionInv'
    BY DEF IInv, ActorsTypeOK, SessionInv, GetBalance, bankVars, AtmRests, atmVars,
           interfaceVars, driverVars
  <1>4. AnswersInv' /\ WithdrawalInv' /\ OpenInv'
    BY <1>2 DEF IInv, AnswersInv, WithdrawalInv, OpenInv, GetBalance, bankVars, AtmRests,
           atmVars, driverVars
  <1>5. PinInv'
    <2>1. VerifiesOnly(pin) => VerifiesOnly(pin)'
      BY <1>1, TrafficToBank DEF IInv, VerifiesOnly, AtmRests, atmVars
    <2> QED
      BY <1>2, <2>1 DEF IInv, PinInv, AtmRests, atmVars, MenuStates
  <1>6. MoneyInv'
    BY <1>2 DEF IInv, MoneyInv, NoMoneyCreated, NoMoneyLost, Charged, GetBalance,
           bankVars,
           AtmRests, atmVars, interfaceVars
  <1>7. ScreenInv'
    <2>1. LastShown' = LastShown
      BY <1>1, TrafficToInterface DEF IInv, AtmRests, interfaceVars
    <2> QED
      BY <2>1 DEF IInv, ScreenInv, AtmRests, atmVars, driverVars
  <1> QED
    BY <1>2, <1>3, <1>4, <1>5, <1>6, <1>7 DEF IInv

\* The bank is closed once the user has quit.
LEMMA CloseBankKeepsIInv ==
    ASSUME IInv, CloseBank, AtmRests
    PROVE  IInv'
  <1>1. Receives("bank", "close_queue") /\ queue' = Popped("bank")
    BY DEF CloseBank, Closes
  <1>2. Traffic("nothing", "nothing", "close_queue", "nothing", "nothing", "nothing")
    BY <1>1, ThreeReceivers, PopTraffic DEF IInv, Traffic
  <1>3. main # "typing"
    <2>1. Count("bank", "close_queue") > 0 /\ Count("interface", "close_queue") \in Nat
      BY <1>1, TakenWasThere, CountIsNat, ThreeReceivers DEF IInv
    <2>2. Closings # 0
      BY <2>1, CountIsNat, ThreeReceivers DEF IInv, Closings
    <2> QED
      BY <2>2 DEF IInv, OpenInv
  <1>4. /\ AreQueues(queue)'
        /\ UNCHANGED <<Verifications, Withdrawals, Enquiries,
                       Count("atm", "pin_verified"),
                       InFlight>>
    BY <1>2, TrafficTotals, TotalsAreNats, AmountAssumption DEF IInv, Is, Worth
  <1>5. ActorsTypeOK' /\ SessionInv'
    BY DEF IInv, ActorsTypeOK, SessionInv, CloseBank, AtmRests, atmVars, interfaceVars,
           driverVars
  <1>6. AnswersInv' /\ WithdrawalInv' /\ OpenInv'
    BY <1>3, <1>4 DEF IInv, AnswersInv, WithdrawalInv, OpenInv, AtmRests, atmVars,
           driverVars
  <1>7. PinInv'
    <2>1. VerifiesOnly(pin) => VerifiesOnly(pin)'
      BY <1>2, TrafficToBank DEF IInv, VerifiesOnly, AtmRests, atmVars
    <2> QED
      BY <1>4, <2>1 DEF IInv, PinInv, AtmRests, atmVars, MenuStates
  <1>8. MoneyInv'
    BY <1>4 DEF IInv, MoneyInv, NoMoneyCreated, NoMoneyLost, Charged, CloseBank, AtmRests,
           atmVars, interfaceVars
  <1>9. ScreenInv'
    BY <1>3 DEF ScreenInv, AtmRests, driverVars
  <1> QED
    BY <1>4, <1>5, <1>6, <1>7, <1>8, <1>9 DEF IInv

LEMMA BankKeepsIInv ==
    ASSUME IInv, BankThread
    PROVE  IInv'
  <1>1. AtmRests
    BY DEF BankThread, AtmRests
  <1>2. CASE VerifyPin
    BY <1>1, <1>2, VerifyPinKeepsIInv
  <1>3. CASE Withdraw
    BY <1>1, <1>3, WithdrawKeepsIInv
  <1>4. CASE GetBalance
    BY <1>1, <1>4, GetBalanceKeepsIInv
  <1>5. CASE WithdrawProcessed
    <2>1. "withdraw_processed" \notin Counted
      BY DEF Counted
    <2> QED
      BY <1>1, <1>5, <2>1, BankStepThatAnswersNothing DEF WithdrawProcessed, bankVars
  <1>6. CASE CancelWithdraw
    <2>1. "cancel_withdraw" \notin Counted
      BY DEF Counted
    <2> QED
      BY <1>1, <1>6, <2>1, BankStepThatAnswersNothing DEF CancelWithdraw, bankVars
  <1>7. CASE CloseBank
    BY <1>1, <1>7, CloseBankKeepsIInv
  <1> QED
    BY <1>2, <1>3, <1>4, <1>5, <1>6, <1>7 DEF BankThread, BankNext

LEMMA AtmKeepsIInv ==
    ASSUME IInv, AtmThread
    PROVE  IInv'
  <1>1. OthersRest
    BY DEF AtmThread, OthersRest
  <1> QED
    BY <1>1, PromptKeepsIInv, DoneProcessingKeepsIInv, CardInsertedKeepsIInv,
       DigitPressesKeepsIInv, ClearLastPressedKeepsIInv, PinVerifiedKeepsIInv,
       PinIncorrectKeepsIInv, WithdrawPressedKeepsIInv, BalancePressedKeepsIInv,
       WithdrawOkKeepsIInv, WithdrawDeniedKeepsIInv, CancelWithdrawalKeepsIInv,
       ShowBalanceKeepsIInv, CancelSessionKeepsIInv, DropMessageKeepsIInv, CloseAtmKeepsIInv
       DEF AtmThread, AtmNext

-----------------------------------------------------------------------------
(* The steps of the interface and of the driver.                         *)

BothRest == UNCHANGED <<atmVars, bankVars, driverVars>>

\* What the interface hands out is no longer in flight.
LEMMA ShowKeepsIInv ==
    ASSUME IInv, Show, BothRest
    PROVE  IInv'
  <1>1. PICK type \in InterfaceHandles :
            /\ Receives("interface", type)
            /\ screen' = type
            /\ issued' = issued + Worth(type, "issue_money")
    <2>1. PICK type \in InterfaceHandles :
              /\ Receives("interface", type)
              /\ screen' = type
              /\ issued' = IF type = "issue_money"
                           THEN issued + Head(queue["interface"]).amount ELSE issued
      BY DEF Show
    <2>2. type = "issue_money" => Head(queue["interface"]).amount = Amount
      BY <2>1, TakenWasThere, Carried, ThreeReceivers DEF IInv, Receives
    <2> QED
      BY <2>1, <2>2, MoneyTypes DEF Worth
  <1>2. type \notin {"nothing", "withdraw_ok", "close_queue"}
    BY DEF InterfaceHandles
  <1>3. Traffic("nothing", "nothing", "nothing", "nothing", type, "nothing")
    BY <1>1, <1>2, ThreeReceivers, PopTraffic DEF IInv, Traffic, Show
  <1>4. /\ AreQueues(queue)'
        /\ UNCHANGED <<Verifications, Withdrawals, Enquiries,
                       Count("atm", "pin_verified"),
                       Closings>>
        /\ InFlight' = InFlight - Worth(type, "issue_money")
    <2>1. AreQueues(queue)'
      BY <1>3, TrafficTotals DEF IInv
    <2>2. UNCHANGED <<Verifications, Withdrawals, Enquiries>>
      BY <1>2, <1>3, TrafficTotals, TotalsAreNats DEF IInv, Is
    <2>3. UNCHANGED <<Count("atm", "pin_verified"), Closings>>
      BY <1>2, <1>3, TrafficTotals, TotalsAreNats DEF IInv, Is
    <2>4. InFlight' = InFlight - Worth(type, "issue_money")
      BY <1>3, TrafficTotals, TotalsAreNats, AmountAssumption DEF IInv, Worth
    <2> QED
      BY <2>1, <2>2, <2>3, <2>4
  <1>5. MoneyInv' /\ issued' \in 0 .. InitialBalance
    <2>1. UNCHANGED <<balance, Charged, withdrawCancelled>>
      BY DEF Charged, BothRest, atmVars, bankVars
    <2>2. Worth(type, "issue_money") \in Nat
      BY AmountAssumption DEF Worth
    <2>3. NoMoneyCreated'
      BY <1>1, <1>4, <2>1, <2>2, MoneyTypes DEF NoMoneyCreated
    <2>4. NoMoneyLost'
      BY <1>1, <1>4, <2>1, <2>2, MoneyTypes DEF IInv, MoneyInv, NoMoneyLost
    <2>5. InFlight' \in Nat
      <3>1. CASE type = "issue_money"
        <4>1. Count("interface", "issue_money") > 0
          BY <1>1, <3>1, TakenWasThere, ThreeReceivers DEF IInv
        <4>2. InFlight >= Amount
          BY <4>1, TotalsAreNats, AmountAssumption DEF IInv, InFlight
        <4> QED
          BY <1>4, <3>1, <4>2, MoneyTypes, AmountAssumption DEF Worth
      <3>2. CASE type # "issue_money"
        BY <1>4, <3>2, MoneyTypes DEF Worth
      <3> QED
        BY <3>1, <3>2
    <2>6. issued' \in Nat /\ issued' <= Charged
      BY <1>1, <2>1, <2>2, <2>3, <2>5, MoneyTypes DEF NoMoneyCreated
    <2>7. Charged <= InitialBalance
      BY MoneyTypes, AmountAssumption DEF Charged
    <2> QED
      BY <2>3, <2>4, <2>6, <2>7, MoneyTypes, AmountAssumption DEF MoneyInv
  <1>6. ActorsTypeOK' /\ SessionInv'
    BY <1>1, <1>5 DEF IInv, ActorsTypeOK, SessionInv, Show, BothRest, atmVars, bankVars,
           driverVars
  <1>7. AnswersInv' /\ WithdrawalInv' /\ OpenInv'
    BY <1>4 DEF IInv, AnswersInv, WithdrawalInv, OpenInv, BothRest, atmVars, bankVars,
           driverVars
  <1>8. PinInv'
    <2>1. VerifiesOnly(pin) => VerifiesOnly(pin)'
      BY <1>3, TrafficToBank DEF IInv, VerifiesOnly, BothRest, atmVars
    <2> QED
      BY <1>4, <2>1 DEF IInv, PinInv, BothRest, atmVars, MenuStates
  <1>9. ScreenInv'
    <2>1. LastShown' = LastShown
      BY <1>1, <1>2, <1>3, TrafficToInterface DEF IInv
    <2> QED
      BY <2>1 DEF IInv, ScreenInv, BothRest, atmVars, driverVars
  <1> QED
    BY <1>4, <1>5, <1>6, <1>7, <1>8, <1>9 DEF IInv

\* The interface closes once the user has quit.
LEMMA CloseInterfaceKeepsIInv ==
    ASSUME IInv, CloseInterface, BothRest
    PROVE  IInv'
  <1>1. Receives("interface", "close_queue") /\ queue' = Popped("interface")
    BY DEF CloseInterface, Closes
  <1>2. Traffic("nothing", "nothing", "nothing", "nothing", "close_queue", "nothing")
    BY <1>1, ThreeReceivers, PopTraffic DEF IInv, Traffic
  <1>3. main # "typing"
    <2>1. Count("interface", "close_queue") > 0 /\ Count("bank", "close_queue") \in Nat
      BY <1>1, TakenWasThere, CountIsNat, ThreeReceivers DEF IInv
    <2>2. Closings # 0
      BY <2>1, CountIsNat, ThreeReceivers DEF IInv, Closings
    <2> QED
      BY <2>2 DEF IInv, OpenInv
  <1>4. /\ AreQueues(queue)'
        /\ UNCHANGED <<Verifications, Withdrawals, Enquiries,
                       Count("atm", "pin_verified"),
                       InFlight>>
    <2>1. AreQueues(queue)'
      BY <1>2, TrafficTotals DEF IInv
    <2>2. UNCHANGED <<Verifications, Withdrawals, Enquiries, Count("atm", "pin_verified")>>
      BY <1>2, TrafficTotals, TotalsAreNats DEF IInv, Is
    <2>3. InFlight' = InFlight
      BY <1>2, TrafficTotals, TotalsAreNats DEF IInv, Worth
    <2> QED
      BY <2>1, <2>2, <2>3
  <1>5. ActorsTypeOK' /\ SessionInv'
    BY DEF IInv, ActorsTypeOK, SessionInv, CloseInterface, BothRest, atmVars, bankVars,
           driverVars
  <1>6. AnswersInv' /\ WithdrawalInv' /\ OpenInv'
    BY <1>3, <1>4 DEF IInv, AnswersInv, WithdrawalInv, OpenInv, BothRest, atmVars,
           driverVars
  <1>7. PinInv'
    <2>1. VerifiesOnly(pin) => VerifiesOnly(pin)'
      BY <1>2, TrafficToBank DEF IInv, VerifiesOnly, BothRest, atmVars
    <2> QED
      BY <1>4, <2>1 DEF IInv, PinInv, BothRest, atmVars, MenuStates
  <1>8. MoneyInv'
    BY <1>4 DEF IInv, MoneyInv, NoMoneyCreated, NoMoneyLost, Charged, CloseInterface,
           BothRest, atmVars, bankVars
  <1>9. ScreenInv'
    BY <1>3 DEF ScreenInv, BothRest, driverVars
  <1> QED
    BY <1>4, <1>5, <1>6, <1>7, <1>8, <1>9 DEF IInv

LEMMA InterfaceKeepsIInv ==
    ASSUME IInv, InterfaceThread
    PROVE  IInv'
  BY ShowKeepsIInv, CloseInterfaceKeepsIInv DEF InterfaceThread, InterfaceNext, BothRest

ActorsRest == UNCHANGED <<atmVars, bankVars, interfaceVars>>

\* A step of the driver that sends nothing the totals count.
LEMMA DriverStepThatKeepsTheTotals ==
    ASSUME IInv, ActorsRest, UNCHANGED Totals \/ main' # "typing",
           UNCHANGED <<Verifications, Withdrawals, Enquiries, Count("atm", "pin_verified"),
                       InFlight>>,
           VerifiesOnly(pin) => VerifiesOnly(pin)',
           main' = "typing" => main = "typing" /\ LastShown' = LastShown
    PROVE  AnswersInv' /\ PinInv' /\ WithdrawalInv' /\ MoneyInv' /\ OpenInv' /\ ScreenInv'
  <1>1. AnswersInv' /\ WithdrawalInv' /\ OpenInv'
    BY DEF IInv, AnswersInv, WithdrawalInv, OpenInv, Totals, ActorsRest, atmVars, bankVars
  <1>2. PinInv'
    BY DEF IInv, PinInv, ActorsRest, atmVars, MenuStates
  <1>3. MoneyInv'
    BY DEF IInv, MoneyInv, NoMoneyCreated, NoMoneyLost, Charged, ActorsRest, atmVars,
           bankVars, interfaceVars
  <1>4. ScreenInv'
    BY DEF IInv, ScreenInv, ActorsRest, atmVars
  <1> QED
    BY <1>1, <1>2, <1>3, <1>4

\* No key is a message that is counted.
LEMMA KeysAreNotCounted ==
    \A k \in Keys : k.type \notin Counted /\ k.type # "nothing"
  <1>1. \A k \in DriverKeys \cup {Msg("clear_last_pressed")} :
            k.type \notin Counted /\ k.type # "nothing"
    BY DEF DriverKeys, Digit, withdraw_pressed, Msg, Counted
  <1> QED
    BY <1>1, KeysAssumption

LEMMA PressKeepsIInv ==
    ASSUME IInv, NEW k \in Keys, Press(k)
    PROVE  IInv'
  <1>1. ActorsRest /\ main' = main
    BY DEF Press, ActorsRest
  <1>2. Traffic("nothing", k.type, "nothing", "nothing", "nothing", "nothing")
    <2>1. queue' = Send(queue, "atm", k) /\ k \in Inbox["atm"] /\ k.type # "nothing"
      BY Sendable, KeysAreNotCounted DEF Press
    <2> QED
      BY <2>1, ThreeReceivers, SendTraffic DEF IInv, Traffic
  <1>3. AreQueues(queue)' /\ UNCHANGED Totals
    <2>1. k.type \notin Counted
      BY KeysAreNotCounted
    <2> QED
      BY <1>2, <2>1, OtherTraffic DEF IInv, Counted
  <1>4. ActorsTypeOK' /\ SessionInv'
    <2>1. keys' \in 0 .. MaxKeys
      BY MaxKeysAssumption DEF IInv, ActorsTypeOK, Press
    <2> QED
      BY <1>1, <2>1 DEF IInv, ActorsTypeOK, SessionInv, ActorsRest, atmVars, bankVars,
             interfaceVars
  <1>5. VerifiesOnly(pin) => VerifiesOnly(pin)'
    BY <1>1, <1>2, TrafficToBank DEF IInv, VerifiesOnly, ActorsRest, atmVars
  <1>6. LastShown' = LastShown
    BY <1>1, <1>2, TrafficToInterface DEF IInv, ActorsRest, interfaceVars
  <1>7. AnswersInv' /\ PinInv' /\ WithdrawalInv' /\ MoneyInv' /\ OpenInv' /\ ScreenInv'
    BY <1>1, <1>3, <1>5, <1>6, DriverStepThatKeepsTheTotals DEF Totals
  <1> QED
    BY <1>3, <1>4, <1>7 DEF IInv

\* A step of the driver that touches no queue: 'q', and the joins.
LEMMA QuietDriverStepKeepsIInv ==
    ASSUME IInv, ActorsRest, UNCHANGED <<queue, keys>>,
           main' \in {"close bank", "join bank", "join interface", "exit"}
    PROVE  IInv'
  <1>1. AreQueues(queue)' /\ UNCHANGED Totals
    BY DEF IInv, AreQueues, Totals, Verifications, Withdrawals, Enquiries, Closings,
           InFlight, Count
  <1>2. ActorsTypeOK' /\ SessionInv'
    BY DEF IInv, ActorsTypeOK, SessionInv, ActorsRest, atmVars, bankVars, interfaceVars
  <1>3. VerifiesOnly(pin) => VerifiesOnly(pin)'
    BY DEF VerifiesOnly, ActorsRest, atmVars
  <1>4. AnswersInv' /\ PinInv' /\ WithdrawalInv' /\ MoneyInv' /\ OpenInv' /\ ScreenInv'
    BY <1>1, <1>3, DriverStepThatKeepsTheTotals DEF Totals
  <1> QED
    BY <1>1, <1>2, <1>4 DEF IInv

LEMMA TrafficOfCloses ==
    ASSUME AreQueues(queue),
           NEW a \in {"nothing", "close_queue"}, NEW b \in {"nothing", "close_queue"},
           NEW i \in {"nothing", "close_queue"},
           Traffic("nothing", a, "nothing", b, "nothing", i)
    PROVE  /\ AreQueues(queue)'
           /\ UNCHANGED <<Verifications, Withdrawals, Enquiries,
                          Count("atm", "pin_verified"),
                          InFlight>>
  <1>1. /\ \A t : t # "nothing" => Is("nothing", t) = 0 /\ Worth("nothing", t) = 0
        /\ \A t : t # "nothing" /\ t # "close_queue" =>
             /\ Is(a, t) = 0 /\ Is(b, t) = 0
             /\ Worth(a, t) = 0 /\ Worth(i, t) = 0
    BY DEF Is, Worth
  <1>2. AreQueues(queue)'
    BY TrafficTotals
  <1>3. UNCHANGED <<Verifications, Withdrawals, Enquiries>>
    BY <1>1, TrafficTotals, TotalsAreNats
  <1>4. UNCHANGED <<Count("atm", "pin_verified"), InFlight>>
    BY <1>1, TrafficTotals, TotalsAreNats
  <1> QED
    BY <1>2, <1>3, <1>4

\* Closing a queue asks for nothing and answers nothing.
LEMMA CloseKeepsIInv ==
    ASSUME IInv, NEW here, NEW r \in Receivers,
           NEW next \in {"close atm", "close interface", "join atm"},
           Close(here, r, next)
    PROVE  IInv'
  <1>1. ActorsRest /\ main' = next /\ keys' = keys
    BY DEF Close, ActorsRest
  <1>2. /\ queue' = [y \in Receivers |-> queue'[y]]
        /\ Does(r, "nothing", "close_queue")
        /\ \A y \in Receivers \ {r} : Does(y, "nothing", "nothing")
    <2>1. close_queue \in Inbox[r] /\ close_queue.type = "close_queue"
      BY Sendable DEF close_queue, Msg
    <2> QED
      BY <2>1, SendTraffic DEF IInv, Close
  <1>3. PICK a \in {"nothing", "close_queue"}, b \in {"nothing", "close_queue"},
              i \in {"nothing", "close_queue"} :
            Traffic("nothing", a, "nothing", b, "nothing", i)
    <2>1. CASE r = "atm"
      <3>1. Traffic("nothing", "close_queue", "nothing", "nothing", "nothing", "nothing")
        BY <1>2, <2>1, ThreeReceivers DEF Traffic
      <3> QED
        BY <3>1
    <2>2. CASE r = "bank"
      <3>1. Traffic("nothing", "nothing", "nothing", "close_queue", "nothing", "nothing")
        BY <1>2, <2>2, ThreeReceivers DEF Traffic
      <3> QED
        BY <3>1
    <2>3. CASE r = "interface"
      <3>1. Traffic("nothing", "nothing", "nothing", "nothing", "nothing", "close_queue")
        BY <1>2, <2>3, ThreeReceivers DEF Traffic
      <3> QED
        BY <3>1
    <2> QED
      BY <2>1, <2>2, <2>3 DEF Receivers
  <1>4. /\ AreQueues(queue)'
        /\ UNCHANGED <<Verifications, Withdrawals, Enquiries,
                       Count("atm", "pin_verified"),
                       InFlight>>
    BY <1>3, TrafficOfCloses DEF IInv
  <1>5. ActorsTypeOK' /\ SessionInv'
    BY <1>1 DEF IInv, ActorsTypeOK, SessionInv, ActorsRest, atmVars, bankVars, interfaceVars
  <1>6. VerifiesOnly(pin) => VerifiesOnly(pin)'
    BY <1>1, <1>3, TrafficToBank DEF IInv, VerifiesOnly, ActorsRest, atmVars
  <1>7. AnswersInv' /\ PinInv' /\ WithdrawalInv' /\ MoneyInv' /\ OpenInv' /\ ScreenInv'
    BY <1>1, <1>4, <1>6, DriverStepThatKeepsTheTotals
  <1> QED
    BY <1>4, <1>5, <1>7 DEF IInv

LEMMA ShutdownKeepsIInv ==
    ASSUME IInv, Shutdown
    PROVE  IInv'
  <1>1. CASE \/ Close("close bank", "bank", "close atm")
             \/ Close("close atm", "atm", "close interface")
             \/ Close("close interface", "interface", "join atm")
    BY <1>1, CloseKeepsIInv, ThreeReceivers
  <1>2. CASE \/ Join("join atm", atmRuns, "join bank")
             \/ Join("join bank", bankRuns, "join interface")
             \/ Join("join interface", interfaceRuns, "exit")
    <2>1. /\ ActorsRest /\ UNCHANGED <<queue, keys>>
          /\ main' \in {"close bank", "join bank", "join interface", "exit"}
      BY <1>2 DEF Join, ActorsRest
    <2> QED
      BY <2>1, QuietDriverStepKeepsIInv
  <1> QED
    BY <1>1, <1>2 DEF Shutdown

-----------------------------------------------------------------------------
(* The invariant, and what follows from it.                              *)

\* The program starts with empty queues, a card to be inserted and nothing charged.
LEMMA InitIInv == Init => IInv
  <1> SUFFICES ASSUME Init PROVE IInv
    OBVIOUS
  <1> USE DEF Init, InitAtm, InitBank, InitInterface
  <1>1. queue = [r \in Receivers |-> <<>>]
    BY DEF InitQueues
  <1>2. AreQueues(queue)
    <2>1. \A r \in Receivers : queue[r] = <<>> /\ <<>> \in Seq(Inbox[r])
      BY <1>1, EmptySeq
    <2> QED
      BY <1>1, <2>1 DEF AreQueues
  <1>3. \A r \in Receivers : \A type : Count(r, type) = 0
    <2>1. ASSUME NEW r \in Receivers, NEW type
          PROVE  Count(r, type) = 0
      <3>1. DOMAIN queue[r] = {}
        BY <1>1
      <3>2. Count(r, type) \in Nat /\ ~ Count(r, type) > 0
        BY <1>2, <3>1, CountIsNat
      <3> QED
        BY <3>2
    <2> QED
      BY <2>1
  <1>4. /\ Verifications = 0 /\ Withdrawals = 0 /\ Enquiries = 0 /\ Closings = 0
        /\ InFlight = 0
    BY <1>3, ThreeReceivers, AmountAssumption
       DEF Verifications, Withdrawals, Enquiries, Closings, InFlight
  <1>5. ActorsTypeOK
    <2>1. pin \in Pins
      BY PinTypes
    <2>2. balance \in 0 .. InitialBalance /\ issued \in 0 .. InitialBalance
            /\ keys \in 0 .. MaxKeys
      BY AmountAssumption, MaxKeysAssumption
    <2> QED
      BY <2>1, <2>2 DEF ActorsTypeOK, Pins, States, WaitingStates, Handles
  <1>6. SessionInv /\ AnswersInv /\ PinInv /\ WithdrawalInv /\ OpenInv /\ ScreenInv
    BY <1>4 DEF SessionInv, AnswersInv, PinInv, WithdrawalInv, OpenInv, ScreenInv,
           MenuStates
  <1>7. MoneyInv
    BY <1>4, AmountAssumption DEF MoneyInv, NoMoneyCreated, NoMoneyLost, Charged
  <1> QED
    BY <1>2, <1>5, <1>6, <1>7 DEF IInv

LEMMA NextIInv == IInv /\ [Next]_vars => IInv'
  <1> SUFFICES ASSUME IInv, [Next]_vars PROVE IInv'
    OBVIOUS
  <1>1. ASSUME NEW k \in Keys, Press(k) PROVE IInv'
    BY <1>1, PressKeepsIInv
  <1>2. CASE Quit
    BY <1>2, QuietDriverStepKeepsIInv DEF Quit, ActorsRest
  <1>3. CASE Shutdown
    BY <1>3, ShutdownKeepsIInv
  <1>4. CASE AtmThread
    BY <1>4, AtmKeepsIInv
  <1>5. CASE BankThread
    BY <1>5, BankKeepsIInv
  <1>6. CASE InterfaceThread
    BY <1>6, InterfaceKeepsIInv
  <1>7. CASE UNCHANGED vars
    <2> USE <1>7 DEF vars, atmVars, bankVars, interfaceVars, driverVars
    <2>1. AreQueues(queue)' /\ UNCHANGED Totals
      BY DEF IInv, AreQueues, Totals, Verifications, Withdrawals, Enquiries, Closings,
             InFlight, Count
    <2>2. ActorsTypeOK' /\ SessionInv'
      BY DEF IInv, ActorsTypeOK, SessionInv
    <2>3. (VerifiesOnly(pin) => VerifiesOnly(pin)') /\ LastShown' = LastShown
      BY DEF VerifiesOnly, LastShown
    <2>4. AnswersInv' /\ PinInv' /\ WithdrawalInv' /\ MoneyInv' /\ OpenInv' /\ ScreenInv'
      BY <2>1, <2>3, DriverStepThatKeepsTheTotals DEF Totals, ActorsRest
    <2> QED
      BY <2>1, <2>2, <2>4 DEF IInv
  <1> QED
    BY <1>1, <1>2, <1>3, <1>4, <1>5, <1>6, <1>7 DEF Next

\* A message more in a queue, or the first one less.
LEMMA QueueHolds ==
    ASSUME AreQueues(queue), NEW r \in Receivers, NEW M
    PROVE  /\ HeldIn(queue[r], M) \in Nat
           /\ \A m \in Inbox[r] : HeldIn(Append(queue[r], m), M)
                = HeldIn(queue[r], M) + (IF m \in M THEN 1 ELSE 0)
           /\ queue[r] # <<>> => HeldIn(Tail(queue[r]), M)
                = HeldIn(queue[r], M) - (IF Head(queue[r]) \in M THEN 1 ELSE 0)
  <1> DEFINE s == queue[r]
             S == Inbox[r]
  <1>1. s \in Seq(S)
    BY DEF AreQueues
  <1> HIDE DEF s, S
  <1>2. HeldIn(s, M) \in Nat
    BY <1>1, HeldInIsNat
  <1>3. \A m \in S : HeldIn(Append(s, m), M) = HeldIn(s, M) + (IF m \in M THEN 1 ELSE 0)
    BY <1>1, HeldInAfterAppend
  <1>4. s # <<>> => HeldIn(Tail(s), M) = HeldIn(s, M) - (IF Head(s) \in M THEN 1 ELSE 0)
    BY <1>1, HeldInAfterTail
  <1> QED
    BY <1>2, <1>3, <1>4 DEF s, S

\* What a step does to a queue when it adds nothing of these.
Eases(r, M) ==
    \/ Keeps(r)
    \/ queue[r] # <<>> /\ queue'[r] = Tail(queue[r])
    \/ \E m : queue'[r] = Append(queue[r], m) /\ m \notin M

\* A queue that gets nothing of a set does not hold more of it.
LEMMA EasesHolds ==
    ASSUME AreQueues(queue), NEW r \in Receivers, NEW M, Eases(r, M)
    PROVE  /\ HeldIn(queue'[r], M) \in Nat /\ HeldIn(queue[r], M) \in Nat
           /\ HeldIn(queue'[r], M) <= HeldIn(queue[r], M)
  <1> DEFINE s == queue[r]
  <1>1. s \in Seq(Inbox[r])
    BY DEF AreQueues
  <1> HIDE DEF s
  <1>2. HeldIn(s, M) \in Nat
    BY <1>1, HeldInIsNat
  <1>3. CASE queue'[r] = s
    BY <1>2, <1>3 DEF s
  <1>4. CASE s # <<>> /\ queue'[r] = Tail(s)
    <2>1. Tail(s) \in Seq(Inbox[r])
      BY <1>1, <1>4, TailFacts
    <2>2. HeldIn(Tail(s), M) \in Nat
      BY <2>1, HeldInIsNat
    <2>3. HeldIn(Tail(s), M) = HeldIn(s, M) - (IF Head(s) \in M THEN 1 ELSE 0)
      BY <1>1, <1>4, HeldInAfterTail
    <2> QED
      BY <1>2, <1>4, <2>2, <2>3 DEF s
  <1>5. ASSUME NEW m, queue'[r] = Append(s, m), m \notin M
        PROVE  HeldIn(queue'[r], M) = HeldIn(s, M)
    <2>1. s \in Seq(Inbox[r] \cup {m}) /\ m \in Inbox[r] \cup {m}
      BY <1>1
    <2> QED
      BY <1>2, <1>5, <2>1, HeldInAfterAppend
  <1> QED
    BY <1>2, <1>3, <1>4, <1>5 DEF Eases, Keeps, s

\* A step that neither asks about a right PIN, answers, nor opens the menu.
LEMMA EasedEntries ==
    ASSUME IInv, EntriesInv, UNCHANGED entries,
           Eases("atm", {Msg("pin_verified")}), Eases("bank", RightRequests)
    PROVE  EntriesInv'
  <1>1. /\ HeldIn(queue'["atm"], {Msg("pin_verified")}) \in Nat
        /\ HeldIn(queue["atm"], {Msg("pin_verified")}) \in Nat
        /\ HeldIn(queue'["atm"], {Msg("pin_verified")})
             <= HeldIn(queue["atm"], {Msg("pin_verified")})
    BY EasesHolds, ThreeReceivers DEF IInv
  <1>2. /\ HeldIn(queue'["bank"], RightRequests) \in Nat
        /\ HeldIn(queue["bank"], RightRequests) \in Nat
        /\ HeldIn(queue'["bank"], RightRequests) <= HeldIn(queue["bank"], RightRequests)
    BY EasesHolds, ThreeReceivers DEF IInv
  <1>3. Msg("pin_verified")' = Msg("pin_verified") /\ RightRequests' = RightRequests
    BY DEF Msg, RightRequests, IsRight, Pins, Digits
  <1> QED
    BY <1>1, <1>2, <1>3 DEF EntriesInv, entries

\* Where the queues are after a step, as far as this argument looks at them.
LEMMA SentAndPopped ==
    ASSUME AreQueues(queue), NEW r \in Receivers, NEW x \in Receivers \ {r}, NEW m
    PROVE  /\ Popped(r)[r] = Tail(queue[r]) /\ Popped(r)[x] = queue[x]
           /\ Send(queue, r, m)[r] = Append(queue[r], m) /\ Send(queue, r, m)[x] = queue[x]
           /\ Send(Popped(r), x, m)[r] = Tail(queue[r])
           /\ Send(Popped(r), x, m)[x] = Append(queue[x], m)
           /\ \A y \in Receivers \ {r, x} : Send(Popped(r), x, m)[y] = queue[y]
  BY DEF AreQueues, Popped, Send

\* The last digit of the PIN asks about it.
LEMMA DigitPressesEntries ==
    ASSUME IInv, EntriesInv, DigitPresses, Entries
    PROVE  EntriesInv'
  <1>1. /\ queue["atm"] # <<>> /\ state = "getting_pin"
        /\ menus' = menus
    BY DEF DigitPresses, Takes, Waits, Receives, Entries, OpensMenu, EntriesInv
  <1>2. CASE Len(pin') # PinLen
    <2>1. queue' = Popped("atm") /\ state' = "getting_pin"
      BY <1>2 DEF DigitPresses, Become, Rest
    <2>2. UNCHANGED entries
      BY <1>1, <2>1 DEF Entries, AsksRightPin, entries, EntriesInv
    <2> QED
      BY <1>1, <2>1, <2>2, EasedEntries, SentAndPopped, ThreeReceivers DEF IInv, Eases, Keeps
  <1>3. CASE Len(pin') = PinLen
    <2> DEFINE m == [type |-> "verify_pin", pin |-> pin']
    <2>1. queue' = Send(Popped("atm"), "bank", m) /\ state' = "verifying_pin"
      BY <1>3 DEF DigitPresses, Become, Rest
    <2>2. pin' \in Pins /\ m \in Inbox["bank"]
      <3>1. Contents.digit \in Digits
        BY TakenWasThere, Carried, ThreeReceivers
           DEF IInv, DigitPresses, Takes, Contents, Receives
      <3>2. pin \in Pins /\ Len(pin) < PinLen
        <4>1. ActorsTypeOK /\ SessionInv
          BY DEF IInv
        <4>2. pin \in Pins
          BY <4>1, Zenon DEF ActorsTypeOK, Pins
        <4> QED
          BY <1>1, <4>1, <4>2 DEF SessionInv
      <3> QED
        BY <3>1, <3>2, PinTypes, Sendable DEF DigitPresses
    <2>3. /\ queue'["atm"] = Tail(queue["atm"])
          /\ queue'["bank"] = Append(queue["bank"], m)
      BY <2>1, SentAndPopped, ThreeReceivers DEF IInv
    <2>4. /\ HeldIn(queue'["atm"], {Msg("pin_verified")}) \in Nat
          /\ HeldIn(queue["atm"], {Msg("pin_verified")}) \in Nat
          /\ HeldIn(queue'["atm"], {Msg("pin_verified")})
               <= HeldIn(queue["atm"], {Msg("pin_verified")})
      BY <1>1, <2>3, EasesHolds, ThreeReceivers DEF IInv, Eases
    <2>5. /\ HeldIn(queue["bank"], RightRequests) \in Nat
          /\ HeldIn(queue'["bank"], RightRequests)
               = HeldIn(queue["bank"], RightRequests) + (IF m \in RightRequests THEN 1 ELSE 0)
      <3>1. AreQueues(queue)
        BY DEF IInv
      <3> HIDE DEF m
      <3>2. /\ HeldIn(queue["bank"], RightRequests) \in Nat
            /\ \A x \in Inbox["bank"] : HeldIn(Append(queue["bank"], x), RightRequests)
                 = HeldIn(queue["bank"], RightRequests) + (IF x \in RightRequests THEN 1 ELSE 0)
        BY <3>1, QueueHolds, ThreeReceivers
      <3> QED
        BY <2>2, <2>3, <3>2
    <2>6. m \in RightRequests <=> IsRight(pin')
      BY <2>2 DEF RightRequests
    <2>7. rightPins' = rightPins + (IF m \in RightRequests THEN 1 ELSE 0)
      BY <1>1, <2>1, <2>6 DEF Entries, AsksRightPin
    <2> HIDE DEF m
    <2> QED
      BY <1>1, <2>4, <2>5, <2>7 DEF EntriesInv
  <1> QED
    BY <1>2, <1>3

\* The answer that opens the menu is gone.
LEMMA PinVerifiedEntries ==
    ASSUME IInv, EntriesInv, PinVerified, Entries
    PROVE  EntriesInv'
  <1>1. /\ queue["atm"] # <<>> /\ Head(queue["atm"]).type = "pin_verified"
        /\ queue' = Popped("atm")
        /\ state = "verifying_pin" /\ state' = "wait_for_action"
    BY DEF PinVerified, Takes, Waits, Receives, Become, Rest
  <1>2. rightPins' = rightPins /\ menus' = menus + 1
    BY <1>1 DEF Entries, AsksRightPin, OpensMenu, EntriesInv
  <1>3. Head(queue["atm"]) = Msg("pin_verified")
    <2>1. Head(queue["atm"]) \in AtmMessages
      BY <1>1, TakenWasThere, ThreeReceivers DEF IInv, Receives, Inbox
    <2> QED
      BY <1>1, <2>1 DEF AtmMessages, DriverKeys, Digit, withdraw_pressed, Msg, close_queue
  <1>4. queue'["atm"] = Tail(queue["atm"]) /\ queue'["bank"] = queue["bank"]
    BY <1>1, SentAndPopped, ThreeReceivers DEF IInv
  <1>5. /\ HeldIn(queue["atm"], {Msg("pin_verified")}) \in Nat
        /\ HeldIn(queue'["atm"], {Msg("pin_verified")})
             = HeldIn(queue["atm"], {Msg("pin_verified")}) - 1
    BY <1>1, <1>3, <1>4, QueueHolds, ThreeReceivers DEF IInv
  <1>6. HeldIn(queue["bank"], RightRequests) \in Nat
    BY QueueHolds, ThreeReceivers DEF IInv
  <1> QED
    BY <1>2, <1>4, <1>5, <1>6 DEF EntriesInv

\* A right PIN is answered once.
LEMMA VerifyPinEntries ==
    ASSUME IInv, EntriesInv, VerifyPin, UNCHANGED entries
    PROVE  EntriesInv'
  <1> DEFINE asked == Head(queue["bank"])
             answer == IF IsRight(asked.pin) THEN "pin_verified" ELSE "pin_incorrect"
  <1>1. /\ queue["bank"] # <<>> /\ asked.type = "verify_pin"
        /\ queue' = Send(Popped("bank"), "atm", Msg(answer))
    BY DEF VerifyPin, Receives
  <1>2. asked \in RightRequests <=> IsRight(asked.pin)
    <2>1. asked \in BankMessages
      BY <1>1, TakenWasThere, ThreeReceivers DEF IInv, Receives, Inbox
    <2>2. asked \in [type : {"verify_pin"}, pin : Pins]
      BY <1>1, <2>1 DEF BankMessages, Msg, close_queue
    <2> QED
      BY <2>2 DEF RightRequests
  <1>3. /\ queue'["bank"] = Tail(queue["bank"])
        /\ queue'["atm"] = Append(queue["atm"], Msg(answer))
    BY <1>1, SentAndPopped, ThreeReceivers DEF IInv
  <1>4. Msg(answer) \in Inbox["atm"] /\ (Msg(answer) = Msg("pin_verified") <=> IsRight(asked.pin))
    BY Sendable DEF Msg
  <1>5. /\ HeldIn(queue["bank"], RightRequests) \in Nat
        /\ HeldIn(queue'["bank"], RightRequests)
             = HeldIn(queue["bank"], RightRequests) - (IF asked \in RightRequests THEN 1 ELSE 0)
    BY <1>1, <1>3, QueueHolds, ThreeReceivers DEF IInv
  <1> HIDE DEF asked, answer
  <1>6. /\ HeldIn(queue["atm"], {Msg("pin_verified")}) \in Nat
        /\ HeldIn(queue'["atm"], {Msg("pin_verified")})
             = HeldIn(queue["atm"], {Msg("pin_verified")})
                 + (IF Msg(answer) \in {Msg("pin_verified")} THEN 1 ELSE 0)
    <2>1. AreQueues(queue)
      BY DEF IInv
    <2>2. /\ HeldIn(queue["atm"], {Msg("pin_verified")}) \in Nat
          /\ \A x \in Inbox["atm"] : HeldIn(Append(queue["atm"], x), {Msg("pin_verified")})
               = HeldIn(queue["atm"], {Msg("pin_verified")})
                   + (IF x \in {Msg("pin_verified")} THEN 1 ELSE 0)
      BY <2>1, QueueHolds, ThreeReceivers
    <2> QED
      BY <1>3, <1>4, <2>2
  <1> QED
    BY <1>2, <1>4, <1>5, <1>6 DEF EntriesInv, entries

\* A step of the atm that is none of the two above: it takes a message, and may send one
\* to each of the others.
LEMMA OtherAtmEntries ==
    ASSUME IInv, EntriesInv, Entries, ~AsksRightPin, ~OpensMenu,
           \/ queue'["atm"] = queue["atm"]
           \/ queue["atm"] # <<>> /\ queue'["atm"] = Tail(queue["atm"]),
           \/ queue'["bank"] = queue["bank"]
           \/ \E m : m.type # "verify_pin" /\ queue'["bank"] = Append(queue["bank"], m)
    PROVE  EntriesInv'
  <1>1. UNCHANGED entries
    BY DEF Entries, EntriesInv, entries
  <1>2. Eases("atm", {Msg("pin_verified")})
    BY DEF Eases, Keeps
  <1>3. \A m : m.type # "verify_pin" => m \notin RightRequests
    BY DEF RightRequests
  <1>4. Eases("bank", RightRequests)
    BY <1>3 DEF Eases, Keeps
  <1> QED
    BY <1>1, <1>2, <1>4, EasedEntries

\* The atm's steps.
LEMMA AtmEntries == ASSUME IInv, EntriesInv, AtmThread PROVE EntriesInv'
  <1>1. AreQueues(queue) /\ Entries
    BY DEF IInv, AtmThread
  <1>2. ASSUME NEW m, \/ queue' = Popped("atm") \/ queue' = Send(Popped("atm"), "interface", m)
        PROVE  queue'["bank"] = queue["bank"] /\ queue'["atm"] = Tail(queue["atm"])
    BY <1>1, <1>2, SentAndPopped, ThreeReceivers
  <1>3. ASSUME NEW m, queue' = Send(Popped("atm"), "bank", m)
        PROVE  /\ queue'["bank"] = Append(queue["bank"], m)
               /\ queue'["atm"] = Tail(queue["atm"])
    BY <1>1, <1>3, SentAndPopped, ThreeReceivers
  <1>4. CASE Prompt \/ DoneProcessing
    <2>1. \E m : queue' = Send(queue, "interface", m)
      BY <1>4 DEF Prompt, DoneProcessing
    <2>2. queue'["bank"] = queue["bank"] /\ queue'["atm"] = queue["atm"]
      BY <1>1, <2>1, SentAndPopped, ThreeReceivers
    <2>3. ~AsksRightPin /\ ~OpensMenu
      BY <1>4 DEF Prompt, DoneProcessing, AsksRightPin, OpensMenu
    <2> QED
      BY <1>1, <2>2, <2>3, OtherAtmEntries
  <1>5. CASE ClearLastPressed \/ CancelSession \/ DropMessage \/ CloseAtm
    <2>1. queue["atm"] # <<>> /\ queue' = Popped("atm")
      BY <1>5 DEF ClearLastPressed, CancelSession, DropMessage, CloseAtm, Takes, Receives,
                  Drops, Closes, Rest
    <2>2. ~AsksRightPin /\ ~OpensMenu
      BY <1>5 DEF ClearLastPressed, CancelSession, DropMessage, CloseAtm, Become, AsksRightPin,
                  OpensMenu
    <2> QED
      BY <1>1, <1>2, <2>1, <2>2, OtherAtmEntries
  <1>6. CASE CardInserted \/ PinIncorrect \/ WithdrawDenied \/ ShowBalance
    <2>1. queue["atm"] # <<>> /\ \E m : queue' = Send(Popped("atm"), "interface", m)
      BY <1>6 DEF CardInserted, PinIncorrect, WithdrawDenied, ShowBalance, Takes, Receives, Rest
    <2>2. ~AsksRightPin /\ ~OpensMenu
      BY <1>6 DEF CardInserted, PinIncorrect, WithdrawDenied, ShowBalance, Takes, Waits,
                  Become, AsksRightPin, OpensMenu
    <2> QED
      BY <1>1, <1>2, <2>1, <2>2, OtherAtmEntries
  <1>7. CASE WithdrawPressed \/ BalancePressed
    <2>1. /\ queue["atm"] # <<>>
          /\ \E m : m.type # "verify_pin" /\ queue' = Send(Popped("atm"), "bank", m)
      BY <1>7 DEF WithdrawPressed, BalancePressed, Takes, Receives, Rest, Msg
    <2>2. ~AsksRightPin /\ ~OpensMenu
      BY <1>7 DEF WithdrawPressed, BalancePressed, Takes, Waits, Become, AsksRightPin, OpensMenu
    <2> QED
      BY <1>1, <1>3, <2>1, <2>2, OtherAtmEntries
  <1>8. CASE WithdrawOk \/ CancelWithdrawal
    <2>1. /\ queue["atm"] # <<>>
          /\ \E m, n : /\ m.type # "verify_pin"
                       /\ \/ queue' = Send(Send(Popped("atm"), "interface", n), "bank", m)
                          \/ queue' = Send(Send(Popped("atm"), "bank", m), "interface", n)
      BY <1>8 DEF WithdrawOk, CancelWithdrawal, Takes, Receives, Rest
    <2>2. /\ queue'["atm"] = Tail(queue["atm"])
          /\ \E m : m.type # "verify_pin" /\ queue'["bank"] = Append(queue["bank"], m)
      BY <1>1, <2>1, ThreeReceivers DEF AreQueues, Send, Popped
    <2>3. ~AsksRightPin /\ ~OpensMenu
      BY <1>8 DEF WithdrawOk, CancelWithdrawal, Takes, Waits, Become, AsksRightPin, OpensMenu
    <2> QED
      BY <1>1, <2>1, <2>2, <2>3, OtherAtmEntries
  <1> QED
    BY <1>1, <1>4, <1>5, <1>6, <1>7, <1>8, DigitPressesEntries, PinVerifiedEntries
       DEF AtmThread, AtmNext

\* The bank's steps.
LEMMA BankEntries == ASSUME IInv, EntriesInv, BankThread PROVE EntriesInv'
  <1>1. AreQueues(queue) /\ UNCHANGED entries
    BY DEF IInv, BankThread
  <1>2. CASE Withdraw \/ GetBalance
    <2>1. /\ queue["bank"] # <<>>
          /\ \E m : m.type # "pin_verified" /\ queue' = Send(Popped("bank"), "atm", m)
      BY <1>2 DEF Withdraw, GetBalance, Receives, Msg
    <2>2. /\ queue'["bank"] = Tail(queue["bank"])
          /\ \E m : m.type # "pin_verified" /\ queue'["atm"] = Append(queue["atm"], m)
      BY <1>1, <2>1, SentAndPopped, ThreeReceivers
    <2>3. \A m : m.type # "pin_verified" => m \notin {Msg("pin_verified")}
      BY DEF Msg
    <2> QED
      BY <1>1, <2>1, <2>2, <2>3, EasedEntries DEF Eases
  <1>3. CASE WithdrawProcessed \/ CancelWithdraw \/ CloseBank
    <2>1. queue["bank"] # <<>> /\ queue' = Popped("bank")
      BY <1>3 DEF WithdrawProcessed, CancelWithdraw, CloseBank, Receives, Closes
    <2>2. queue'["bank"] = Tail(queue["bank"]) /\ queue'["atm"] = queue["atm"]
      BY <1>1, <2>1, SentAndPopped, ThreeReceivers
    <2> QED
      BY <1>1, <2>1, <2>2, EasedEntries DEF Eases, Keeps
  <1> QED
    BY <1>1, <1>2, <1>3, VerifyPinEntries DEF BankThread, BankNext

\* The keys, the closes and the interface's steps concern neither PIN nor menu.
LEMMA NextEntries == IInv /\ EntriesInv /\ [Next]_vars => EntriesInv'
  <1> SUFFICES ASSUME IInv, EntriesInv, [Next]_vars PROVE EntriesInv'
    OBVIOUS
  <1>1. AreQueues(queue)
    BY DEF IInv
  <1>2. ASSUME UNCHANGED entries, NEW r \in Receivers, NEW m, queue' = Send(queue, r, m),
               m.type \notin {"verify_pin", "pin_verified"}
        PROVE  EntriesInv'
    <2>1. /\ m \notin {Msg("pin_verified")} /\ m \notin RightRequests
      BY <1>2 DEF Msg, RightRequests
    <2>2. \A x \in Receivers : Keeps(x) \/ queue'[x] = Append(queue[x], m)
      BY <1>1, <1>2 DEF AreQueues, Send, Keeps
    <2>3. Eases("atm", {Msg("pin_verified")}) /\ Eases("bank", RightRequests)
      BY <2>1, <2>2, ThreeReceivers DEF Eases
    <2> QED
      BY <1>2, <2>3, EasedEntries
  <1>3. ASSUME NEW k \in Keys, Press(k) PROVE EntriesInv'
    <2>1. k.type \notin {"verify_pin", "pin_verified"}
      BY KeysAreNotCounted DEF Counted
    <2> QED
      BY <1>2, <1>3, <2>1, ThreeReceivers DEF Press
  <1>4. ASSUME NEW here, NEW r \in Receivers, NEW next, Close(here, r, next)
        PROVE  EntriesInv'
    BY <1>2, <1>4 DEF Close, close_queue, Msg
  <1>5. ASSUME UNCHANGED <<queue, entries>> PROVE EntriesInv'
    BY <1>5, EasedEntries DEF Eases, Keeps
  <1>6. CASE Quit \/ UNCHANGED vars
    <2>1. CASE Quit
      BY <2>1, <1>5 DEF Quit
    <2>2. CASE UNCHANGED vars
      BY <2>2, <1>5 DEF vars
    <2> QED
      BY <1>6, <2>1, <2>2
  <1>7. CASE Shutdown
    <2>1. CASE \/ Join("join atm", atmRuns, "join bank")
               \/ Join("join bank", bankRuns, "join interface")
               \/ Join("join interface", interfaceRuns, "exit")
      BY <1>5, <2>1 DEF Join
    <2>2. CASE \/ Close("close bank", "bank", "close atm")
               \/ Close("close atm", "atm", "close interface")
               \/ Close("close interface", "interface", "join atm")
      BY <1>4, <2>2, ThreeReceivers
    <2> QED
      BY <1>7, <2>1, <2>2 DEF Shutdown
  <1>8. CASE InterfaceThread
    <2>1. queue' = Popped("interface") /\ UNCHANGED entries
      BY <1>8 DEF InterfaceThread, InterfaceNext, Show, CloseInterface
    <2>2. queue'["bank"] = queue["bank"] /\ queue'["atm"] = queue["atm"]
      BY <1>1, <2>1, SentAndPopped, ThreeReceivers
    <2> QED
      BY <2>1, <2>2, EasedEntries DEF Eases, Keeps
  <1> QED
    BY <1>3, <1>6, <1>7, <1>8, AtmEntries, BankEntries DEF Next

\* The invariant above holds in every state of atm_run_example.
THEOREM InvariantHolds == Spec => []IInv
  BY InitIInv, NextIInv, PTL DEF Spec

\* So does the one about the PINs.
LEMMA EntriesHold == Spec => []EntriesInv
  <1>1. Init => EntriesInv
    <2> SUFFICES ASSUME Init PROVE EntriesInv
      OBVIOUS
    <2>1. \A r \in Receivers : queue[r] = <<>>
      BY DEF Init, InitQueues
    <2>2. \A M : HeldIn(<<>>, M) = 0
      BY FS_EmptySet DEF HeldIn
    <2> QED
      BY <2>1, <2>2, ThreeReceivers DEF Init, EntriesInv
  <1> QED
    BY <1>1, NextEntries, InvariantHolds, PTL DEF Spec

\* The PIN the atm collects never outgrows pin_len, the bank never charges more
\* than the account holds (balance is unsigned in bank.h), and the interface
\* never hands out more than that.
THEOREM TypesHold == Spec => []TypeOK
  <1>1. IInv /\ EntriesInv => TypeOK
    BY DEF IInv, EntriesInv, TypeOK
  <1> QED
    BY <1>1, InvariantHolds, EntriesHold, PTL

\* What the interface has handed out, and what is on its way to it, never exceeds
\* what the bank has charged, whatever answers are left behind by cancelled
\* withdrawals and taken by later ones.
THEOREM NoMoneyIsCreated == Spec => []NoMoneyCreated
  <1>1. IInv => NoMoneyCreated
    BY DEF IInv, MoneyInv
  <1> QED
    BY <1>1, InvariantHolds, PTL

\* As long as process_withdraw has taken no cancel_pressed, whatever the bank has
\* charged has been handed out or is in a queue.
THEOREM NoMoneyIsLost == Spec => []NoMoneyLost
  <1>1. IInv => NoMoneyLost
    BY DEF IInv, MoneyInv
  <1> QED
    BY <1>1, InvariantHolds, PTL

\* As long as verifying_pin has taken no cancel_pressed, only the right PIN leads
\* to wait_for_action.  After that a late answer of the bank can do so for a wrong PIN,
\* but never more often in all than the right PIN was sent to the bank.
THEOREM MenuIsGuarded == Spec => []MenuNeedsRightPin
  <1>1. IInv /\ EntriesInv => MenuNeedsRightPin
    <2> SUFFICES ASSUME IInv, EntriesInv PROVE MenuNeedsRightPin
      OBVIOUS
    <2>1. /\ HeldIn(queue["atm"], {Msg("pin_verified")}) \in Nat
          /\ HeldIn(queue["bank"], RightRequests) \in Nat
      BY QueueHolds, ThreeReceivers DEF IInv
    <2>2. menus <= rightPins
      BY <2>1 DEF EntriesInv
    <2> QED
      BY <2>2 DEF IInv, PinInv, MenuNeedsRightPin
  <1> QED
    BY <1>1, InvariantHolds, EntriesHold, PTL

\* A state of the atm that waits for the bank has asked it, and its answer is
\* still to come or in the atm's queue: no handler takes an answer and waits on.
THEOREM WaitsAreAnswered == Spec => []NoOrphanWait
  <1>1. IInv /\ TypeOK => NoOrphanWait
    BY DEF IInv, AnswersInv, OpenInv, NoOrphanWait, Asked, Verifications, Withdrawals,
           Enquiries
  <1> QED
    BY <1>1, InvariantHolds, TypesHold, PTL

\* When all is quiet the screen shows what the atm waits for.
THEOREM ScreenIsRight == Spec => []ScreenFitsState
  <1>1. ASSUME IInv, Quiet
        PROVE  \/ state = "waiting_for_card" /\ screen = "display_enter_card"
               \/ state = "getting_pin" /\ screen = "display_enter_pin"
               \/ state = "wait_for_action" /\ screen = "display_withdraw_options"
    <2>1. \A r \in Receivers : queue[r] = <<>>
      BY <1>1 DEF Quiet
    <2>2. ASSUME NEW r \in Receivers, NEW type
          PROVE  Count(r, type) = 0
      <3>1. DOMAIN queue[r] = {}
        BY <2>1
      <3>2. Count(r, type) \in Nat /\ ~ Count(r, type) > 0
        BY <1>1, <3>1, CountIsNat DEF IInv
      <3> QED
        BY <3>2
    <2>3. Verifications = 0 /\ Withdrawals = 0 /\ Enquiries = 0
      BY <2>2, ThreeReceivers DEF Verifications, Withdrawals, Enquiries
    <2>4. state \in {"waiting_for_card", "getting_pin", "wait_for_action"}
      BY <1>1, <2>3 DEF IInv, AnswersInv, Quiet, WaitingStates, Handles
    <2>5. LastShown = screen
      BY <2>1, ThreeReceivers DEF LastShown
    <2> QED
      BY <1>1, <2>4, <2>5 DEF IInv, ScreenInv, Quiet, PromptOf
  <1>2. IInv => ScreenFitsState
    BY <1>1 DEF ScreenFitsState
  <1> QED
    BY <1>2, InvariantHolds, PTL
=============================================================================
