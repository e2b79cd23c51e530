--------------------------- MODULE AtomicPrograms ---------------------------
(**********************************************************************************)
(* The small multi-threaded programs of the book, as code for the machine         *)
(* of ViewMachine: chapter 5's (lists 5.2 to 5.13 and the two spin locks),        *)
(* chapter 2's threads that use a local variable, chapter 3's users of            *)
(* std::mutex, std::lock, std::call_once and std::shared_mutex, list 4.25's       *)
(* latch, list 10.2, the test of list 11.1 and the coroutine that moves to a      *)
(* new thread.  A program maps each of its threads to a sequence of instructions; *)
(* every access carries the memory order the source gives it, "plain" when        *)
(* the object is not atomic.  "main" is the part of the driver that runs          *)
(* beside the threads: it joins them, and then asserts or destroys.               *)
(**********************************************************************************)
EXTENDS Integers, Sequences, FiniteSets, TLC

Values == -4 .. 4      \* every value a location of these programs can hold

(****************************************************************************)
(* Instructions.  Await spins until it has loaded one of vals; Update waits *)
(* until the location's last value is in from and adds by to it, keeping    *)
(* the old value in reg; Exchange is compare_exchange_weak, whose expected  *)
(* value is in reg; Branch jumps when reg is in vals.                       *)
(****************************************************************************)
Load(l, r, o)            == [op |-> "load", loc |-> l, reg |-> r, ord |-> o]
LoadAt(ls, i, r, o)      == [op |-> "load", locs |-> ls, index |-> i, reg |-> r, ord |-> o]
Store(l, v, o)           == [op |-> "store", loc |-> l, val |-> v, ord |-> o]
Save(l, r, o)            == [op |-> "store", loc |-> l, from |-> r, ord |-> o]
Await(l, vs, o)          == [op |-> "await", loc |-> l, vals |-> vs, ord |-> o]
Update(l, vs, k, r, o)   == [op |-> "update", loc |-> l, vals |-> vs, by |-> k, reg |-> r, ord |-> o]
Exchange(l, r, v, ok, o) == [op |-> "exchange", loc |-> l, reg |-> r, val |-> v, ok |-> ok, ord |-> o]
Fence(o)                 == [op |-> "fence", ord |-> o]
Branch(r, vs, to)        == [op |-> "branch", reg |-> r, vals |-> vs, to |-> to]
Goto(to)                 == Branch("always", Values, to)
Check(r, vs)             == [op |-> "check", reg |-> r, vals |-> vs]
Once(l, to)              == [op |-> "once", loc |-> l, to |-> to]
LockAll(ls)              == [op |-> "lockAll", locs |-> ls]
Join(ts)                 == [op |-> "join", threads |-> ts]

\* std::mutex, and std::shared_mutex, which holds a reader per 1 and a writer as -1
Lock(m)         == Update(m, {0}, 1, "held", "acquire")
Unlock(m)       == Update(m, {1}, -1, "held", "release")
LockShared(m)   == Update(m, 0 .. 3, 1, "held", "acquire")
UnlockShared(m) == Update(m, 1 .. 3, -1, "held", "release")
LockWriter(m)   == Update(m, {0}, -1, "held", "acquire")
UnlockWriter(m) == Update(m, {-1}, 1, "held", "release")

\* a plain read of a shared object and then a plain write of it
Change(l, v) == <<Load(l, "seen", "plain"), Store(l, v, "plain")>>

-----------------------------------------------------------------------------
(* Chapter 2: threads that use a local variable of the function that starts *)
(* them; a variable's end is a write of it.  The start of a thread is a     *)
(* release that its first step acquires.                                    *)

Launch == Store("started", 1, "release")
UsesLocal(l) == <<Await("started", {1}, "acquire"), Load(l, "r", "plain"), Check("r", {1})>>
Joined(l)   == <<Store(l, 1, "plain"), Launch, Join({"t"}), Store(l, 0, "plain")>>
Detached(l) == <<Store(l, 1, "plain"), Launch, Store(l, 0, "plain")>>
\* the thread gets a copy of its own
Copied(l, rest) == <<Store(l, 1, "plain"), Load(l, "r", "plain"), Save("copy", "r", "plain"), Launch>>
                     \o rest \o <<Store(l, 0, "plain")>>

oops == [main |-> Detached("some_local_state"), t |-> UsesLocal("some_local_state")]
List2_2 == [main |-> Copied("some_local_var", <<Join({"t"})>>), t |-> UsesLocal("copy")]
passing_oops == [main |-> Copied("buffer", <<>>), t |-> UsesLocal("copy")]
List2_6 == [main |-> Joined("some_var"), t |-> UsesLocal("some_var")]
oops_again == [main |-> Joined("data"),
               t |-> <<Await("started", {1}, "acquire")>> \o Change("data", 1)]
passing_this_with_memfn == [main |-> Joined("my_x"), t |-> UsesLocal("my_x")]

-----------------------------------------------------------------------------
(* Chapter 5                                                             *)

\* the driver joins its threads and asserts that z is not 0
AssertZ(ts) == <<Join(ts), Load("z", "z", "seq_cst"), Check("z", {1, 2})>>
CountZ == Update("z", Values, 1, "old", "seq_cst")

\* while (!first); if (second) ++z
ReadThenRead(first, second, o) ==
    <<Await(first, {1}, o), Load(second, "r", o), Branch("r", {0}, 5), CountZ>>

List5_2 == [read_thread  |-> <<Await("data_ready", {1}, "seq_cst"), Load("data", "r", "plain"),
                               Check("r", {42})>>,
            write_thread |-> <<Store("data", 42, "plain"), Store("data_ready", 1, "seq_cst")>>]

\* two writers and two readers that look at x and y in opposite orders
FourThreads(st, ld) ==
    [write_x       |-> <<Store("x", 1, st)>>,
     write_y       |-> <<Store("y", 1, st)>>,
     read_x_then_y |-> ReadThenRead("x", "y", ld),
     read_y_then_x |-> ReadThenRead("y", "x", ld),
     main          |-> AssertZ({"write_x", "write_y", "read_x_then_y", "read_y_then_x"})]
List5_4 == FourThreads("seq_cst", "seq_cst")
List5_7 == FourThreads("release", "acquire")

\* one writer of x and then y, one reader of y and then x
TwoThreads(writer, reader) ==
    [write_x_then_y |-> writer, read_y_then_x |-> reader,
     main |-> AssertZ({"write_x_then_y", "read_y_then_x"})]
List5_5 == TwoThreads(<<Store("x", 1, "relaxed"), Store("y", 1, "relaxed")>>,
                      ReadThenRead("y", "x", "relaxed"))

\* Mutant of List5_8Writer: the second store is relaxed too.
List5_8Relaxed == <<Store("x", 1, "relaxed"), Store("y", 1, "relaxed")>>
List5_8Writer == <<Store("x", 1, "relaxed"), Store("y", 1, "release")>>
List5_8 == TwoThreads(List5_8Writer,
                      <<Await("y", {1}, "acquire"), Load("x", "r", "relaxed"),
                        Branch("r", {0}, 5), CountZ>>)

List5_12Reader == <<Await("y", {1}, "relaxed"), Fence("acquire"), Load("x", "r", "relaxed"),
                    Branch("r", {0}, 6), CountZ>>
List5_12 == TwoThreads(<<Store("x", 1, "relaxed"), Fence("release"), Store("y", 1, "relaxed")>>,
                       List5_12Reader)

List5_13Writer == <<Store("x", 1, "plain"), Fence("release"), Store("y", 1, "relaxed")>>
List5_13 == TwoThreads(List5_13Writer,
                       <<Await("y", {1}, "relaxed"), Fence("acquire"), Load("x", "r", "plain"),
                         Branch("r", {0}, 6), CountZ>>)

(****************************************************************************)
(* 5.6, with two of the three incrementing threads, one of the two readers  *)
(* and two turns for the ten: a thread that increments var finds in it what *)
(* it stored last.                                                          *)
(****************************************************************************)
ReadBoth(i) == <<Load("x", <<"x", i>>, "relaxed"), Load("y", <<"y", i>>, "relaxed")>>
Increment(var) ==
    <<Await("go", {1}, "seq_cst")>>
      \o ReadBoth(0) \o <<Check(<<var, 0>>, {0}), Store(var, 1, "relaxed")>>
      \o ReadBoth(1) \o <<Check(<<var, 1>>, {1}), Store(var, 2, "relaxed")>>
List5_6 == [inc_x |-> Increment("x"), inc_y |-> Increment("y"),
            read_vals |-> <<Await("go", {1}, "seq_cst")>> \o ReadBoth(0) \o ReadBoth(1),
            main |-> <<Store("go", 1, "seq_cst")>>]

\* 5.9: thread1's data reaches thread3 through thread2's exchange (two of the five elements)
List5_9Middle == <<Update("sync", {1}, 1, "old", "acq_rel")>>
List5_9 == [thread1 |-> <<Store("data0", 42, "relaxed"), Store("data1", 27, "relaxed"),
                          Store("sync", 1, "release")>>,
            thread2 |-> List5_9Middle,
            thread3 |-> <<Await("sync", {2}, "acquire"),
                          Load("data0", "r", "relaxed"), Check("r", {42}),
                          Load("data1", "r", "relaxed"), Check("r", {27})>>]

\* 5.11, with two items and three consumers
Populate == <<Store("item0", 1, "plain"), Store("item1", 1, "plain"), Store("count", 2, "release")>>
Consume  == <<Update("count", Values, -1, "n", "acquire"), Branch("n", -4 .. 0, 7),
              LoadAt(<<"item0", "item1">>, "n", "item", "plain"),
              Lock("cout_mtx"), Unlock("cout_mtx"), Goto(1)>>
List5_11 == [populate |-> Populate, consume1 |-> Consume, consume2 |-> Consume, consume3 |-> Consume]

(***************************************************************************)
(* SpinLock (also chapter 7's spinlock_mutex) and SpinLockEx, each used by *)
(* two threads, twice, as the driver does: the guarded object is the       *)
(* output.  SpinLockEx keeps the expected value of its exchange in a plain *)
(* member, and leaves the loop when the exchange has stored true in it.    *)
(***************************************************************************)
SpinLockExUse ==
    <<Load("expected", "e", "plain"),
      Exchange("flag", "e", 1, "ok", "seq_cst"), Branch("ok", {1}, 7),
      Save("expected", "e", "plain"), Branch("e", {1}, 7),
      Goto(1)>>
      \o Change("output", 1) \o <<Store("flag", 0, "release")>>
SpinLockEx == [t1 |-> SpinLockExUse, t2 |-> SpinLockExUse]

SpinLockUse == <<Update("flag", {0}, 1, "old", "acquire")>> \o Change("output", 1)
                 \o <<Store("flag", 0, "release")>>
SpinLock == [t1 |-> SpinLockUse \o SpinLockUse, t2 |-> SpinLockUse \o SpinLockUse]

-----------------------------------------------------------------------------
(* Chapters 3, 4, 10 and 11                                              *)

\* 3.1: a list under a mutex
List3_1 == [add   |-> <<Lock("mtx")>> \o Change("some_list", 1) \o <<Unlock("mtx")>>,
            find  |-> <<Lock("mtx"), Load("some_list", "r", "plain"), Unlock("mtx")>>]

\* 3.6 and 3.9: swap(a, b) and swap(b, a) at once, both mutexes locked by std::lock
SwapLocked == Change("a", 1) \o Change("b", 1) \o <<Unlock("mtx_a"), Unlock("mtx_b")>>
\* Mutant of Swap: the mutexes are locked one after the other, each swap its own first.
SwapOneByOne(ms) == <<Lock(ms[1]), Lock(ms[2])>> \o SwapLocked
Swap(ms) == <<LockAll(ms)>> \o SwapLocked
List3_6 == [swap_ab |-> Swap(<<"mtx_a", "mtx_b">>), swap_ba |-> Swap(<<"mtx_b", "mtx_a">>)]

\* 3.2.7: get_lock hands the locked mutex to process_data
ProcessData == <<Lock("some_mtx")>> \o Change("prepared", 1) \o Change("done", 1)
                 \o <<Unlock("some_mtx")>>
TransferLock == [t1 |-> ProcessData, t2 |-> ProcessData, t3 |-> ProcessData]

\* 3.11: foo, in three threads for the ten; and the double-checked lock, in two
Foo == <<Once("resource_flag", 4), Store("resource_ptr", 1, "plain"),
         Store("resource_flag", 2, "release"),
         Load("resource_ptr", "r", "plain"), Check("r", {1})>>
List3_11 == [t1 |-> Foo, t2 |-> Foo, t3 |-> Foo]
DoubleChecked ==
    <<Load("resource_ptr", "r", "plain"), Branch("r", {1}, 8),
      Lock("resource_mtx"), Load("resource_ptr", "r", "plain"), Branch("r", {1}, 7),
      Store("resource_ptr", 1, "plain"), Unlock("resource_mtx"),
      Load("resource_ptr", "r", "plain")>>
UndefinedBehavior == [t1 |-> DoubleChecked, t2 |-> DoubleChecked]

\* 3.13: two readers and a writer of the cache
FindEntry == <<LockShared("entry_mtx"), Load("entries", "r", "plain"), UnlockShared("entry_mtx")>>
UpdateEntry == <<LockWriter("entry_mtx")>> \o Change("entries", 1) \o <<UnlockWriter("entry_mtx")>>
List3_13 == [find1 |-> FindEntry, find2 |-> FindEntry, update1 |-> UpdateEntry, update2 |-> UpdateEntry]

(**************************************************************************)
(* 4.25, with two threads for the five: foo reads the data when the latch *)
(* is at 0, and at its end the futures' destructors wait for the threads  *)
(* before the data and the latch are destroyed (a write of each).         *)
(**************************************************************************)
CountDown(d) == <<Store(d, 1, "plain"), Update("latch", Values, -1, "old", "release")>>
List4_25 == [t1 |-> CountDown("data0"), t2 |-> CountDown("data1"),
             main |-> <<Await("latch", {0}, "acquire"),
                        Load("data0", "r", "plain"), Check("r", {1}),
                        Load("data1", "r", "plain"), Check("r", {1}),
                        Join({"t1", "t2"}), Store("data0", 0, "plain"), Store("latch", 0, "plain")>>]

\* 10.2: lock_guard calls ProtectedY's lock and unlock; both lock the mutex
ProtectedY_lock   == <<Lock("mtx")>>
ProtectedY_unlock == <<Lock("mtx")>>
List10_2 == [main |-> ProtectedY_lock \o Change("v", 1) \o ProtectedY_unlock]

(****************************************************************************)
(* 11.1: a promise is set with release and waited for with acquire; "cond"  *)
(* is what push's notify_all tells a pop that waits.  The test destroys the *)
(* queue when both futures have been read.                                  *)
(****************************************************************************)
List11_1 ==
    [push |-> <<Store("push_ready", 1, "release"), Await("go", {1}, "acquire"), Lock("q_mtx")>>
                \o Change("q", 42)
                \o <<Store("cond", 1, "relaxed"), Unlock("q_mtx"), Store("push_done", 1, "release")>>,
     pop  |-> <<Store("pop_ready", 1, "release"), Await("go", {1}, "acquire"),
                Lock("q_mtx"), Load("q", "front", "plain"), Branch("front", {42}, 9),
                Unlock("q_mtx"), Await("cond", {1}, "relaxed"), Goto(3),
                Store("q", 0, "plain"), Unlock("q_mtx"),
                Save("answer", "front", "plain"), Store("pop_done", 1, "release")>>,
     main |-> <<Await("push_ready", {1}, "acquire"), Await("pop_ready", {1}, "acquire"),
                Store("go", 1, "release"), Await("push_done", {1}, "acquire"),
                Await("pop_done", {1}, "acquire"), Load("answer", "r", "plain"), Check("r", {42}),
                Lock("q_mtx"), Load("q", "r", "plain"), Check("r", {0}), Unlock("q_mtx"),
                Store("q", 0, "plain")>>]

(**************************************************************************)
(* switch_2_new_thread: await_suspend copies p_out out of the coroutine's *)
(* frame before it starts the thread, which resumes the coroutine, and so *)
(* destroys the frame, while main still assigns and prints the jthread.   *)
(**************************************************************************)
switch_2_new_thread ==
    [main |-> <<Store("frame", 1, "plain"), Load("frame", "p_out", "plain"), Check("p_out", {1}),
                Launch, Store("out", 1, "plain"), Load("out", "id", "plain"), Join({"t"})>>,
     t |-> <<Await("started", {1}, "acquire")>> \o Change("frame", 0)]

-----------------------------------------------------------------------------
Programs ==
    [list_2_1 |-> oops, list_2_2 |-> List2_2, list_2_6 |-> List2_6, oops_again |-> oops_again,
     passing_oops |-> passing_oops,
     passing_this |-> passing_this_with_memfn, switch_2_new_thread |-> switch_2_new_thread,
     list_5_2 |-> List5_2, list_5_4 |-> List5_4, list_5_5 |-> List5_5, list_5_6 |-> List5_6,
     list_5_7 |-> List5_7, list_5_8 |-> List5_8, list_5_9 |-> List5_9, list_5_11 |-> List5_11,
     list_5_12 |-> List5_12, list_5_13 |-> List5_13, SpinLock |-> SpinLock,
     SpinLockEx |-> SpinLockEx, list_3_1 |-> List3_1, list_3_6 |-> List3_6,
     transfer_lock |-> TransferLock, list_3_11 |-> List3_11,
     double_checked_lock |-> UndefinedBehavior, list_3_13 |-> List3_13,
     list_4_25 |-> List4_25, list_10_2 |-> List10_2, list_11_1 |-> List11_1]

\* what a location holds before the threads start, when that is not 0
Initially == [latch |-> 2]

\* the source says of these that the assertion "can fire", that there may be a race, or
\* that the function "returns while a thread still has access to local variable"
SaidToFail == {"list_2_1", "list_5_5", "list_5_7", "double_checked_lock"}
=============================================================================
