--------------------------- MODULE ControlSocket ---------------------------
(***************************************************************************)
(* The commands of the operator: a client sends its request to the socket  *)
(* of the controller, or, where nobody listens, carries it out itself      *)
(* under the lock of the database (experiment/__main__.py, Controller.     *)
(* serve).  Controllers are killed and started again at any point, and     *)
(* clients give up waiting.                                                *)
(***************************************************************************)
EXTENDS Naturals, Sequences

CONSTANTS
  Client,        \* invocations of the command line
  OpChoices,     \* what they may be: client -> "retry", "cancel" or "import"
  Backlog,       \* connections that wait to be accepted
  MaxKills       \* bound on the controllers that are killed

ASSUME ControlAssumption ==
  /\ "nobody" \notin Client /\ "controller" \notin Client
  /\ OpChoices \subseteq [Client -> {"retry", "cancel", "import"}]

VARIABLES
  op,            \* what each client was asked to do
  owner,         \* who has the writer lock, or "nobody"
  socket,        \* control.sock: "none", "deaf" or "listening"
  waitingIn,     \* connections not yet accepted
  server,        \* the controller: where it is, whom it serves, with what answer
  client,        \* where each client is
  applied,       \* how often the command of each client was committed
  kills          \* controllers killed so far

controlVars == <<op, owner, socket, waitingIn, server, client, applied, kills>>

NotServing == [pc |-> "off", with |-> "nobody", answer |-> "none"]
Idling == [NotServing EXCEPT !.pc = "idle"]
Answers == {"ok", "error"}

ControlInit ==
  /\ op \in OpChoices
  /\ owner = "nobody" /\ socket \in {"none", "deaf"} /\ waitingIn = <<>>
  /\ server = NotServing /\ client = [c \in Client |-> "start"]
  /\ applied = [c \in Client |-> 0] /\ kills = 0

-----------------------------------------------------------------------------
(* The controller.                                                         *)

\* Under the lock; systemd tries again while a client has it.
StartController ==
  /\ server.pc = "off" /\ owner = "nobody"
  /\ owner' = "controller" /\ server' = [NotServing EXCEPT !.pc = "locked"]
  /\ UNCHANGED <<op, socket, waitingIn, client, applied, kills>>

\* The socket a dead controller left is replaced by one that does not listen yet.
BindSocket ==
  /\ server.pc = "locked"
  /\ socket' = "deaf" /\ server' = [server EXCEPT !.pc = "bound"]
  /\ UNCHANGED <<op, owner, waitingIn, client, applied, kills>>

Listen ==
  /\ server.pc = "bound"
  /\ socket' = "listening" /\ server' = Idling
  /\ UNCHANGED <<op, owner, waitingIn, client, applied, kills>>

Accept ==
  /\ server.pc = "idle" /\ waitingIn # <<>>
  /\ server' = [pc |-> "reading", with |-> Head(waitingIn), answer |-> "none"]
  /\ waitingIn' = Tail(waitingIn)
  /\ UNCHANGED <<op, owner, socket, client, applied, kills>>

\* The client has not sent anything in five seconds.
ReadTimeout ==
  /\ server.pc = "reading" /\ client[server.with] = "send"
  /\ server' = [server EXCEPT !.pc = "answering", !.answer = "error"]
  /\ UNCHANGED <<op, owner, socket, waitingIn, client, applied, kills>>

\* What carrying out a command commits, and what is answered: it is refused, or
\* committed in one transaction; a cancellation is committed before the unit is
\* stopped, which may fail.
Outcomes(c) ==
  {<<1, "ok">>, <<0, "error">>} \cup (IF op[c] = "cancel" THEN {<<1, "error">>} ELSE {})

\* Also for a client that has left: its request is in the socket.
Dispatch ==
  LET c == server.with
  IN  /\ server.pc = "reading" /\ client[c] # "send"
      /\ \E o \in Outcomes(c) :
           /\ applied' = [applied EXCEPT ![c] = @ + o[1]]
           /\ server' = [server EXCEPT !.pc = "answering", !.answer = o[2]]
      /\ UNCHANGED <<op, owner, socket, waitingIn, client, kills>>

\* Who is connected to the controller.
Connected == {c \in Client : client[c] \in {"send", "wait"}}

\* A connection that breaks is an error of its own: the request may be committed.
Reset(c) == "cut off"

Disconnected(cs) == [c \in Client |-> IF c \in cs \cap Connected THEN Reset(c) ELSE client[c]]

\* Mutant: a command whose answer was not taken is tried again.
AnswerRepeats ==
  LET c == server.with
  IN  /\ server.pc = "answering"
      /\ IF client[c] = "wait"
         THEN client' = [client EXCEPT ![c] = server.answer] /\ server' = Idling
         ELSE UNCHANGED client /\ server' = [server EXCEPT !.pc = "reading"]
      /\ UNCHANGED <<op, owner, socket, waitingIn, applied, kills>>
\* "A departed annotation/admin client must not stop the controller."
Answer ==
  LET c == server.with
  IN  /\ server.pc = "answering"
      /\ client' = CASE client[c] = "wait" -> [client EXCEPT ![c] = server.answer]
                     [] client[c] = "send" -> [client EXCEPT ![c] = "late"]
                     [] OTHER -> client
      /\ server' = Idling
      /\ UNCHANGED <<op, owner, socket, waitingIn, applied, kills>>

\* The controller is killed, with all its connections; its socket stays.
KillController ==
  /\ server.pc # "off" /\ kills < MaxKills
  /\ server' = NotServing /\ owner' = "nobody"
  /\ socket' = IF socket = "none" THEN "none" ELSE "deaf"
  /\ waitingIn' = <<>> /\ client' = Disconnected(Client) /\ kills' = kills + 1
  /\ UNCHANGED <<op, applied>>

-----------------------------------------------------------------------------
(* The clients.                                                            *)

Goes(c, pc) == client' = [client EXCEPT ![c] = pc]

\* An import goes to the database itself, a command only if nobody listens.
Dial(c) ==
  /\ client[c] = "start"
  /\ IF op[c] = "import" \/ socket # "listening" THEN Goes(c, "lock") /\ UNCHANGED waitingIn
     ELSE IF Len(waitingIn) = Backlog THEN Goes(c, "refused") /\ UNCHANGED waitingIn
     ELSE Goes(c, "send") /\ waitingIn' = Append(waitingIn, c)
  /\ UNCHANGED <<op, owner, socket, server, applied, kills>>

Send(c) ==
  /\ client[c] = "send" /\ Goes(c, "wait")
  /\ UNCHANGED <<op, owner, socket, waitingIn, server, applied, kills>>

\* "controller owns the database; use the local command socket"
WriterLock(c) ==
  /\ client[c] = "lock"
  /\ IF owner = "nobody" THEN owner' = c /\ Goes(c, "dispatch")
     ELSE Goes(c, "refused") /\ UNCHANGED owner
  /\ UNCHANGED <<op, socket, waitingIn, server, applied, kills>>

DispatchHere(c) ==
  /\ client[c] = "dispatch"
  /\ \E o \in Outcomes(c) :
       applied' = [applied EXCEPT ![c] = @ + o[1]] /\ Goes(c, o[2])
  /\ owner' = "nobody"
  /\ UNCHANGED <<op, socket, waitingIn, server, kills>>

\* A minute has passed, or the operator ends it; its connection stays behind.
LeaveClient(c) ==
  /\ client[c] \in {"wait", "dispatch"} /\ Goes(c, "left")
  /\ owner' = IF owner = c THEN "nobody" ELSE owner
  /\ UNCHANGED <<op, socket, waitingIn, server, applied, kills>>

Serving ==
  StartController \/ BindSocket \/ Listen \/ Accept \/ ReadTimeout \/ Dispatch \/ Answer
ControlNext ==
  \/ Serving
  \/ KillController
  \/ \E c \in Client : Dial(c)
  \/ \E c \in Client : Send(c)
  \/ \E c \in Client : WriterLock(c)
  \/ \E c \in Client : DispatchHere(c)
  \/ \E c \in Client : LeaveClient(c)

ControlSpec == ControlInit /\ [][ControlNext]_controlVars

\* The controller's loop goes on; nothing is assumed of the clients.
ControlFairness == WF_controlVars(Serving)

-----------------------------------------------------------------------------
\* Whoever writes owns the database: a client never carries a command out while
\* a controller answers the socket, although it decides so before it has the lock.
WriterOwns ==
  /\ server.pc # "off" => owner = "controller"
  /\ \A c \in Client : client[c] = "dispatch" => owner = c

\* A command is committed at most once, whether the controller dies before or
\* after the commit and whoever carries it out in the end.
AppliedOnce == \A c \in Client : applied[c] <= 1

\* What the operator is told is so: "ok" for a command that is committed, an
\* error or a refusal for one that is not, except that a cancellation may be
\* committed although its unit could not be stopped.
AnswerIsTrue ==
  \A c \in Client :
    /\ client[c] = "ok" => applied[c] = 1
    /\ client[c] = "error" => applied[c] = 0 \/ op[c] = "cancel"
    /\ client[c] \in {"refused", "late"} => applied[c] = 0

\* No client costs another one its answer: connections break only with a
\* controller that is killed.
OthersUnharmed == \A c \in Client : client[c] = "cut off" => kills > 0

\* Everyone who waits is served, or cut off, even behind a client that connects
\* and never says anything.
WaitersServed == \A c \in Client : client[c] = "wait" ~> client[c] # "wait"

\* Commands are carried out once, by the owner of the database, and answered
\* truthfully, and no client is in the way of another.
CommandsSound == WriterOwns /\ AppliedOnce /\ AnswerIsTrue /\ OthersUnharmed
=============================================================================
