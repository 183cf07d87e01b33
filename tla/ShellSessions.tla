------------------------------ MODULE ShellSessions ------------------------------
(***************************************************************************)
(* The terminals of the shell WebSocket: browser tabs whose sockets attach  *)
(* to the pseudo-terminal the server keeps under one key, take it over from *)
(* each other or replace it, and are sent what they missed by sequence      *)
(* number. An init of a tmux target awaits checks of its target and lease,  *)
(* and the socket or the terminal may be gone when they return. Tabs agree  *)
(* on the key, so one entry of the map stands for all.                      *)
(***************************************************************************)
EXTENDS Integers, Sequences

CONSTANTS
  Tabs,
  BufferSize,   \* chunks kept for a replay
  MaxTerminals, \* bound: terminals spawned
  MaxSockets,   \* bound: sockets opened
  MaxChunks,    \* bound: chunks of output under one entry
  NoEntry

ASSUME ShellAssumption ==
  {BufferSize, MaxTerminals, MaxSockets, MaxChunks} \subseteq Nat \ {0}

Terminals == 1..MaxTerminals
Sockets == 1..MaxSockets

VARIABLES
  mode,     \* what the key names: a plain shell, a local agent's pane, any tmux pane
  entry,    \* ptySessionsMap's entry of the key
  terminal, \* external: what became of each pseudo-terminal
  socket,   \* the server's side of each socket and of the init it brought
  frames,   \* sent to the tab and not yet received
  tab

shellvars == <<mode, entry, terminal, socket, frames, tab>>

(* Chunks are numbered without gaps, so the buffer is told by their count.     *)
Entries == [pty : Terminals, ws : Sockets \cup {0}, last : 0..MaxChunks,
            kept : 0..BufferSize, timer : BOOLEAN]

ASSUME NoEntryAssumption == NoEntry \notin Entries

(* cursor: the sequence number the init names, 0 for none; seen: the terminal  *)
(* under the key when the handler began to await its lease.                    *)
SocketStates ==
  [tab : Tabs, up : BOOLEAN, restart : BOOLEAN, cursor : 0..MaxChunks,
   stage : {"sent", "asserting", "verifying", "leasing", "done"}, seen : Terminals \cup {0}]

(* from: the terminal the cursor was counted on; astray: the tab was told to   *)
(* resume with the number of a chunk of another terminal.                      *)
TabStates ==
  [socket : Sockets \cup {0}, restarting : BOOLEAN, cursor : 0..MaxChunks,
   from : Terminals \cup {0}, shown : Seq([pty : Terminals, seq : 1..MaxChunks]), astray : BOOLEAN]

Accepted == DOMAIN socket
Leaving(t) == IF tab[t].socket = 0 THEN frames ELSE [frames EXCEPT ![tab[t].socket] = << >>]

\* Nothing arrives at a tab that has left the socket.
Sent(s, sequence) ==
  IF socket[s].up /\ tab[socket[s].tab].socket = s THEN [frames EXCEPT ![s] = @ \o sequence] ELSE frames

-----------------------------------------------------------------------------
(* The tab: connectToShell, disconnectFromShell, restartShell.                *)

ShellConnects(t) ==
  LET s == Len(socket) + 1
      cursor == IF tab[t].restarting THEN 0 ELSE tab[t].cursor
  IN /\ tab[t].socket = 0 /\ s \in Sockets
     /\ socket' = Append(socket, [tab |-> t, up |-> TRUE, restart |-> tab[t].restarting, cursor |-> cursor,
                                  stage |-> "sent", seen |-> 0])
     /\ frames' = Append(frames, << >>)
     /\ tab' = [tab EXCEPT ![t].socket = s, ![t].restarting = FALSE, ![t].cursor = cursor]
     /\ UNCHANGED <<mode, entry, terminal>>

\* onclose: the screen stays.
LosesSocket(t) ==
  /\ tab[t].socket # 0
  /\ tab' = [tab EXCEPT ![t].socket = 0] /\ frames' = Leaving(t)
  /\ UNCHANGED <<mode, entry, terminal, socket>>

\* The screen is cleared and the cursor stays, unless the shell is to restart.
Disconnects(t, restarting) ==
  /\ tab[t].socket # 0
  /\ tab' = [tab EXCEPT ![t].socket = 0, ![t].shown = << >>, ![t].restarting = restarting]
  /\ frames' = Leaving(t)
  /\ UNCHANGED <<mode, entry, terminal, socket>>

Shows(v, f) ==
  CASE f.kind = "output" -> [v EXCEPT !.shown = Append(@, f.chunk), !.cursor = f.chunk.seq,
                                      !.from = f.chunk.pty]
    [] f.kind = "redraw" -> [v EXCEPT !.shown = << >>, !.astray = FALSE]
    [] f.kind = "resume" -> [v EXCEPT !.astray = @ \/ v.from # f.pty]

ReceivesFrame(t) ==
  LET s == tab[t].socket
  IN /\ s # 0 /\ frames[s] # << >>
     /\ tab' = [tab EXCEPT ![t] = Shows(@, Head(frames[s]))]
     /\ frames' = [frames EXCEPT ![s] = Tail(@)]
     /\ UNCHANGED <<mode, entry, terminal, socket>>

-----------------------------------------------------------------------------
(* The server: init.                                                          *)

Stands(s, stage) == s \in Accepted /\ socket[s].stage = stage

\* assertAttachTarget is awaited, for a plain shell there is nothing to await.
BeginsAsserting(s) ==
  /\ mode # "plain" /\ Stands(s, "sent") /\ socket[s].up
  /\ socket' = [socket EXCEPT ![s].stage = "asserting"]
  /\ UNCHANGED <<mode, entry, terminal, frames, tab>>

\* The handler is about to read the map.
AtMap(s) == IF mode = "plain" THEN Stands(s, "sent") /\ socket[s].up ELSE Stands(s, "asserting")

Current == IF entry = NoEntry THEN 0 ELSE entry.pty

Fresh(s) == entry = NoEntry \/ socket[s].restart

\* verifyLease: the entry of now is compared with that of then when it returns.
BeginsVerifying(s) ==
  /\ mode = "attach-only" /\ AtMap(s) /\ ~Fresh(s)
  /\ socket' = [socket EXCEPT ![s].stage = "verifying", ![s].seen = Current]
  /\ UNCHANGED <<mode, entry, terminal, frames, tab>>

\* createLease.
BeginsLeasing(s) ==
  /\ mode = "attach-only" /\ AtMap(s) /\ Fresh(s)
  /\ socket' = [socket EXCEPT ![s].stage = "leasing", ![s].seen = Current]
  /\ UNCHANGED <<mode, entry, terminal, frames, tab>>

Oldest == entry.last - entry.kept + 1

\* The handler is through with the init.
Handled(s) == socket' = [socket EXCEPT ![s] = [@ EXCEPT !.stage = "done", !.restart = FALSE, !.cursor = 0,
                                                        !.seen = 0]]

\* Faulty variant: off by one at the old end of the buffer.
ResumableAlmost(s) ==
  socket[s].cursor # 0 /\ socket[s].cursor <= entry.last /\ socket[s].cursor >= Oldest - 2

Resumable(s) ==
  socket[s].cursor # 0 /\ socket[s].cursor <= entry.last /\ socket[s].cursor >= Oldest - 1

Chunk(i) == [kind |-> "output", chunk |-> [pty |-> entry.pty, seq |-> i]]

Replay(s) ==
  LET first == IF Resumable(s) /\ socket[s].cursor >= Oldest THEN socket[s].cursor + 1 ELSE Oldest
      start == IF Resumable(s) THEN [kind |-> "resume", pty |-> entry.pty] ELSE [kind |-> "redraw"]
  IN <<start>> \o [i \in 1 .. (entry.last + 1 - first) |-> Chunk(first + i - 1)]

\* The socket takes the terminal over, even one that has closed in the meantime.
Taken(s) == [entry EXCEPT !.ws = s, !.timer = FALSE]

Reattaches(s) ==
  /\ \/ mode # "attach-only" /\ AtMap(s) /\ ~Fresh(s)
     \/ Stands(s, "verifying") /\ entry # NoEntry /\ entry.pty = socket[s].seen
  /\ frames' = Sent(s, Replay(s))
  /\ entry' = Taken(s)
  /\ Handled(s)
  /\ UNCHANGED <<mode, terminal, tab>>

\* Faulty variant: the terminal seen before the await is the one that is killed.
ReplacedSeen(s) == socket[s].seen

\* The map is read again at the moment it is written.
Replaced(s) == Current

SpawnsTerminal(s) ==
  /\ \/ mode # "attach-only" /\ AtMap(s) /\ Fresh(s)
     \/ Stands(s, "leasing")
  /\ \E p \in Terminals :
       /\ terminal[p] = "none" /\ \A q \in Terminals : q < p => terminal[q] # "none"
       /\ terminal' = [q \in Terminals |-> IF q = p THEN "running"
                                           ELSE IF q = Replaced(s) THEN "killed" ELSE terminal[q]]
       /\ entry' = [pty |-> p, ws |-> s, last |-> 0, kept |-> 0, timer |-> FALSE]
  /\ frames' = Sent(s, <<[kind |-> "redraw"]>>)
  /\ Handled(s)
  /\ UNCHANGED <<mode, tab>>

\* A target, a lease, a directory or the spawn fails: nothing has changed.
RefusesInit(s) ==
  /\ AtMap(s) \/ Stands(s, "verifying") \/ Stands(s, "leasing")
  /\ Handled(s)
  /\ UNCHANGED <<mode, entry, terminal, frames, tab>>

-----------------------------------------------------------------------------
(* The server: output, exit, close.                                           *)

(* onData looks the entry up by its key: what a replaced terminal still says   *)
(* is taken for output of the one that replaced it.                            *)
TerminalSpeaks(p) ==
  /\ terminal[p] \in {"running", "killed"} /\ entry # NoEntry /\ entry.last < MaxChunks
  /\ entry' = [entry EXCEPT !.last = @ + 1, !.kept = IF @ < BufferSize THEN @ + 1 ELSE @]
  /\ frames' = IF entry.ws = 0 THEN frames ELSE Sent(entry.ws, <<Chunk(entry.last + 1)>>)
  /\ UNCHANGED <<mode, terminal, socket, tab>>

Forgotten(p) == entry # NoEntry /\ entry.pty = p

TerminalExits(p) ==
  /\ terminal[p] \in {"running", "killed"}
  /\ terminal' = [terminal EXCEPT ![p] = "exited"]
  /\ entry' = IF Forgotten(p) THEN NoEntry ELSE entry
  /\ UNCHANGED <<mode, socket, frames, tab>>

\* A handler that awaits goes on; an init that has not been handled never will be.
SocketCloses(s) ==
  /\ s \in Accepted /\ socket[s].up
  /\ socket' = [socket EXCEPT ![s].up = FALSE, ![s].stage = IF @ = "sent" THEN "done" ELSE @]
  /\ entry' = IF entry # NoEntry /\ entry.ws = s THEN [entry EXCEPT !.ws = 0, !.timer = TRUE] ELSE entry
  /\ UNCHANGED <<mode, terminal, frames, tab>>

\* PTY_SESSION_TIMEOUT after the close.
TimesOut ==
  /\ entry # NoEntry /\ entry.timer
  /\ terminal' = [terminal EXCEPT ![entry.pty] = "killed"] /\ entry' = NoEntry
  /\ UNCHANGED <<mode, socket, frames, tab>>

-----------------------------------------------------------------------------
ShellInit ==
  /\ mode \in {"plain", "local-agent", "attach-only"}
  /\ entry = NoEntry /\ terminal = [p \in Terminals |-> "none"]
  /\ socket = << >> /\ frames = << >>
  /\ tab = [t \in Tabs |-> [socket |-> 0, restarting |-> FALSE, cursor |-> 0, from |-> 0,
                            shown |-> << >>, astray |-> FALSE]]

ShellStep ==
  \/ \E t \in Tabs : \/ ShellConnects(t) \/ LosesSocket(t) \/ ReceivesFrame(t)
                     \/ \E restarting \in BOOLEAN : Disconnects(t, restarting)
  \/ \E s \in Sockets : \/ BeginsAsserting(s) \/ BeginsVerifying(s) \/ BeginsLeasing(s)
                        \/ Reattaches(s) \/ SpawnsTerminal(s) \/ RefusesInit(s) \/ SocketCloses(s)
  \/ \E p \in Terminals : TerminalSpeaks(p) \/ TerminalExits(p)
  \/ TimesOut

ShellSpec == ShellInit /\ [][ShellStep]_shellvars

-----------------------------------------------------------------------------
ShellTypeOK ==
  /\ mode \in {"plain", "local-agent", "attach-only"} /\ entry \in Entries \cup {NoEntry}
  /\ terminal \in [Terminals -> {"none", "running", "killed", "exited"}]
  /\ Len(frames) = Len(socket) /\ \A s \in Accepted : socket[s] \in SocketStates
  /\ \A t \in Tabs : /\ tab[t].socket \in Accepted \cup {0}
                     /\ [tab[t] EXCEPT !.shown = << >>] \in TabStates

(* Every terminal that has not been killed is the one under the key: overlap-  *)
(* ping restarts "replace the current PTY without orphaning either". And one   *)
(* that no socket has taken is waiting for its timeout, while one that a       *)
(* socket has is not: it is never killed in front of its user.                 *)
TerminalIsKept ==
  /\ \A p \in Terminals : terminal[p] = "running" <=> entry # NoEntry /\ entry.pty = p
  /\ entry # NoEntry => (entry.timer <=> entry.ws = 0)

(* "Sequence-acknowledged resume": what a tab shows has no gap and nothing     *)
(* twice, whichever sockets it had and whoever took the terminal over in       *)
(* between, and it ends where the terminal does when nothing is on its way;    *)
(* unless it was resumed with a number it had from an earlier terminal.        *)
ScreenIsWhole ==
  \A t \in Tabs : ~tab[t].astray =>
    LET shown == tab[t].shown
        s == tab[t].socket
    IN /\ \A i \in 1 .. (Len(shown) - 1) :
            shown[i + 1] = [pty |-> shown[i].pty, seq |-> shown[i].seq + 1]
       /\ shown # << >> /\ s # 0 /\ entry # NoEntry /\ entry.ws = s /\ socket[s].up /\ frames[s] = << >>
            => shown[Len(shown)] = [pty |-> entry.pty, seq |-> entry.last]
=============================================================================
