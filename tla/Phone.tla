------------------------------- MODULE Phone -------------------------------
(***************************************************************************)
(* The Android player (cli/android/tcpplayercli/dialog.cpp).  The Qt       *)
(* thread looks for the server once a second, or starts and restarts the   *)
(* thread of Dialog::_tmain, which owns an sclient: the thread "main" of   *)
(* SockPrograms, with the same network thread "net".  The three share      *)
(* __alive, _server and the set of addresses _ifs without a lock.          *)
(***************************************************************************)
EXTENDS SockPrograms

VARIABLES
    ui,         \* where timer_slot is
    server,     \* _server
    started,    \* _pthread is not null
    late,       \* history: SetAlive has overwritten the thread's own FALSE
    crossed     \* history: a thread was started with _server FALSE

shellVars == <<ui, server, started, late, crossed>>
phoneVars == <<progVars, shellVars>>

PhoneInit ==
    /\ ProgInit
    /\ Runs("phone") => file[0].is = "stdin"
    /\ ui = "tick" /\ server = FALSE /\ started = FALSE
    /\ late = FALSE /\ crossed = FALSE

-----------------------------------------------------------------------------
(* timer_slot.                                                             *)

Ui(label) ==
    /\ program = "phone" /\ ui = label
    /\ UNCHANGED <<file, sk, program, part>> /\ NoHistory

\* It forgets the addresses and is in Udper::join for seconds.
Search ==
    /\ Ui("tick") /\ ~server
    /\ ui' = "search"
    /\ UNCHANGED <<th, alive, server, started, late, crossed>>

SearchEnds(found) ==
    /\ Ui("search")
    /\ server' = (server \/ found)
    /\ ui' = "tick"
    /\ UNCHANGED <<th, alive, started, late, crossed>>

\* (Bound: no other thread after a slip, see "late" and "crossed".)
Restart ==
    /\ Ui("tick") /\ server /\ ~late /\ ~crossed
    /\ ~started \/ ~alive
    /\ alive' = (alive /\ ~started)
    /\ ui' = IF started THEN "join" ELSE "start"
    /\ UNCHANGED <<th, server, started, late, crossed>>

JoinThread ==
    /\ Ui("join") /\ At("main", "done")
    /\ ui' = "start"
    /\ UNCHANGED <<th, alive, server, started, late, crossed>>

\* The new thread may run on before the next line does.  If timer_slot has
\* seen the end of the old thread before that thread itself, _server has
\* become FALSE in the join, and the next tick looks for servers anew.
StartThread ==
    /\ Ui("start")
    /\ Goto("main", "begin")
    /\ started' = TRUE /\ ui' = "alive"
    /\ crossed' = (crossed \/ ~server)
    /\ UNCHANGED <<alive, server, late>>

SetAlive ==
    /\ Ui("alive")
    /\ alive' = TRUE
    /\ late' = (late \/ (~alive /\ ~At("main", "begin")))
    /\ ui' = "tick"
    /\ UNCHANGED <<th, server, started, crossed>>

TimerSlot ==
    \/ Search \/ Restart \/ JoinThread \/ StartThread \/ SetAlive
    \/ \E found \in BOOLEAN : SearchEnds(found)

-----------------------------------------------------------------------------
(* Dialog::_tmain, and what of its sclient only the phone can do.          *)

Main(label) ==
    /\ program = "phone" /\ At("main", label) /\ NoHistory
    /\ UNCHANGED <<file, program, part, ui, started, late, crossed>>

\* A new sclient.
Construct ==
    /\ Main("begin")
    /\ sk' = [sk EXCEPT !["cli"] = [fd |-> -1, blocks |-> FALSE, member |-> FALSE,
                                    connected |-> FALSE, connecting |-> FALSE]]
    /\ alive' = TRUE
    /\ Goto("main", "init")
    /\ UNCHANGED server

\* init_ao() has set up the sound, or any of its calls has failed.
InitAo(works) ==
    /\ Main("init")
    /\ th' = IF works THEN [th EXCEPT !["main"].at = "play", !["net"] = Thread0("top")]
             ELSE [th EXCEPT !["main"].at = "silent"]
    /\ UNCHANGED <<sk, alive, server>>

FaultySilent ==
    /\ Main("silent")
    /\ Goto("main", "done") \/ Goto("main", "fault")
    /\ UNCHANGED <<sk, server, alive>>

\* Without sound the thread ends at once, if ~AoCls, which stops a player that
\* was never made, does not end the program.
Silent ==
    /\ Main("silent")
    /\ alive' = FALSE
    /\ Goto("main", "done") \/ Goto("main", "fault")
    /\ UNCHANGED <<sk, server>>

LeavePlay ==
    /\ Main("play") /\ ~alive
    /\ server' = FALSE
    /\ Goto("main", "quit")
    /\ UNCHANGED <<sk, alive>>

\* And then ~sclient destroys its socket and joins the network thread.
Quit ==
    /\ Main("quit")
    /\ alive' = FALSE
    /\ CallDestroy("main", "cli", "await")
    /\ UNCHANGED <<sk, server>>

FaultySelectFails ==
    /\ Step("net", "data") /\ program = "phone" /\ alive
    /\ server' = FALSE
    /\ UNCHANGED <<file, sk, th, program, part, ui, alive, started, late, crossed>>

\* select() fails in _get_data, which goes on with its socket.
SelectFails ==
    /\ Step("net", "data") /\ program = "phone" /\ alive
    /\ alive' = FALSE
    /\ UNCHANGED <<file, sk, th, program, part, shellVars>>

PlayerThread ==
    \/ Construct \/ Silent \/ LeavePlay \/ Quit
    \/ \E works \in BOOLEAN : InitAo(works)

-----------------------------------------------------------------------------

PhoneNext ==
    \/ TimerSlot \/ PlayerThread \/ SelectFails
    \/ ProgNext /\ UNCHANGED shellVars

PhoneSpec == PhoneInit /\ [][PhoneNext]_phoneVars

\* As SockPrograms has it; the phone's two other threads run on; searches and
\* setting up the sound succeed if they are repeated often enough.
PhoneFairSpec ==
    /\ PhoneSpec /\ ProgFairness
    /\ WF_phoneVars(TimerSlot) /\ WF_phoneVars(PlayerThread)
    /\ SF_phoneVars(SearchEnds(TRUE)) /\ SF_phoneVars(InitAo(TRUE))

-----------------------------------------------------------------------------
(* Properties.                                                             *)

Walking == {"dial", "socket", "connect", "wait", "unblock", "dialed", "failed"}

\* The network thread is about to walk, or walks, over the addresses.
InAddresses ==
    \/ th["net"].at \in Walking
    \/ Closing("net", "cli") /\ th["net"].back \in Walking
    \/ At("net", "top") /\ alive

\* The network thread has only a reference to _ifs.  timer_slot changes the
\* set under it only after one of two slips: it was late to say that the thread
\* is alive, or it has restarted a thread whose end made it look for servers.
AddressesStay == ~late /\ ~crossed => ~(ui = "search" /\ InAddresses)

Died == \E t \in Thread : At(t, "fault")

\* Whatever ends the player's threads, the phone plays again; it does not wait
\* for a thread that never ends, nor take a thread that has ended for one that
\* runs, unless one of those slips has happened or the network thread stays in
\* a receive that main's close() did not end.
PlaysAgain ==
    Runs("phone") /\ [](~late /\ ~crossed) =>
        <>[]MayWait \/ []<>(At("main", "play") \/ Died)
=============================================================================
