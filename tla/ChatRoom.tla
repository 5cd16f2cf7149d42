------------------------------ MODULE ChatRoom ------------------------------
(* The chat-tui example: examples/chat-tui/server/main.cc, which keeps the     *)
(* roster and fans messages out, and the model behind client/main.cc.  The     *)
(* server's callbacks of one session never overlap, those of different         *)
(* sessions run on different workers and meet at g_roster_mutex; connections   *)
(* are accepted one at a time.  A broadcast holds the mutex throughout; it     *)
(* reads state->room of the others, which only their own threads write, so a   *)
(* room that is being written is read as either value or as neither.           *)
EXTENDS Naturals, Sequences, SequencesExt, FiniteSets

CONSTANTS
    Users,                  \* one session each
    Names,                  \* what adjective-animal-NN can produce
    Rooms,                  \* kRooms, a sequence
    Scrollback,             \* kScrollback
    Leavers,                \* the users who may quit
    MaxDoings               \* bound: rooms chosen and messages typed

ASSUME ChatAssumption == Rooms # <<>> /\ Scrollback \in Nat \ {0} /\ MaxDoings \in Nat

VARIABLES
    roster,                 \* g_roster
    about,                  \* ClientState of each session: [name, room]
    stage,                  \* how far the server's callback for the session got
    going,                  \* the room SelectRoom is moving the session to
    toServer, toClient,     \* packets under way, in order
    ui,                     \* UiModel of each client, and whether g_session is set
    doings                  \* what users did so far, for the bound

chatVars == <<roster, about, stage, going, toServer, toClient, ui, doings>>

\* No name, and no room: an empty string.
NoText == ""

ChatInit ==
    /\ roster = {}
    /\ about = [u \in Users |-> [name |-> NoText, room |-> Rooms[1]]]
    /\ stage = [u \in Users |-> "away"]
    /\ going = [u \in Users |-> NoText]
    /\ toServer = [u \in Users |-> <<>>] /\ toClient = [u \in Users |-> <<>>]
    /\ ui = [u \in Users |-> [session |-> FALSE, quit |-> FALSE, name |-> NoText, rooms |-> <<>>,
                              room |-> NoText, history |-> [r \in ToSet(Rooms) |-> <<>>]]]
    /\ doings = 0

-----------------------------------------------------------------------------
\* The server.

System(what, u) == [kind |-> what, room |-> about[u].room, name |-> about[u].name]

\* Whose room compares equal to room, for every outcome of a racing read.
Hearers(members, room) ==
    LET writing == {m \in members : stage[m] = "writing"}
        sure    == {m \in members \ writing : about[m].room = room}
    IN  {sure \cup torn : torn \in SUBSET {m \in writing : room \in {about[m].room, going[m]}}}

\* Broadcast, under g_roster_mutex; SendPacket to a closed session goes nowhere.
Broadcast(members, packet) ==
    \E heard \in Hearers(members, packet.room) :
        toClient' = [u \in Users |-> IF u \in heard /\ ~ui[u].quit
                                     THEN Append(toClient[u], packet) ELSE toClient[u]]

NameTaken(n) == \E m \in roster : about[m].name = n

\* Whatever the generator comes up with is used.
GeneratedNames_Unchecked(u) == Names

\* GenerateNameLocked: a free name of those tried, or a guest's.
GeneratedNames(u) == {n \in Names : ~NameTaken(n)} \cup {"guest-" \o ToString(u)}

\* OnClientConnected up to the welcome: named and on the roster in one step.
Connected(u) ==
    /\ stage[u] = "away" /\ ~ui[u].quit
    /\ \A v \in Users : stage[v] \notin {"joining", "announcing"}
    /\ \E n \in GeneratedNames(u) : about' = [about EXCEPT ![u].name = n]
    /\ roster' = roster \cup {u}
    /\ stage' = [stage EXCEPT ![u] = "joining"]
    /\ UNCHANGED <<going, toServer, toClient, ui, doings>>

\* ... the welcome, outside the lock: others may have been heard before it.
SendWelcome(u) ==
    /\ stage[u] = "joining"
    /\ stage' = [stage EXCEPT ![u] = "announcing"]
    /\ toClient' = [toClient EXCEPT ![u] =
           IF ui[u].quit THEN @ ELSE Append(@, [kind |-> "welcome", room |-> NoText, name |-> about[u].name])]
    /\ UNCHANGED <<roster, about, going, toServer, ui, doings>>

\* ... "joined", which also ends a change of room.
Announce(u) ==
    /\ stage[u] \in {"announcing", "arrived"}
    /\ stage' = [stage EXCEPT ![u] = "idle"]
    /\ Broadcast(roster, System("joined", u))
    /\ UNCHANGED <<roster, about, going, toServer, ui, doings>>

\* The room is written first, and "left" is said to the room arrived in.
SelectRoom_Early(u) ==
    LET p == Head(toServer[u])
    IN  /\ stage[u] = "idle" /\ toServer[u] # <<>> /\ p.kind = "select"
        /\ toServer' = [toServer EXCEPT ![u] = Tail(@)]
        /\ stage' = [stage EXCEPT ![u] = "writing"]
        /\ going' = [going EXCEPT ![u] = p.room]
        /\ Broadcast(roster, [System("left", u) EXCEPT !.room = p.room])
        /\ UNCHANGED <<roster, about, ui, doings>>

\* OnPacket(SelectRoomPacket) up to "left"; a room not offered, or the one the
\* user is in, is ignored.
SelectRoom(u) ==
    LET p == Head(toServer[u])
        ignored == p.room \notin ToSet(Rooms) \/ p.room = about[u].room
    IN  /\ stage[u] = "idle" /\ toServer[u] # <<>> /\ p.kind = "select"
        /\ toServer' = [toServer EXCEPT ![u] = Tail(@)]
        /\ IF ignored THEN UNCHANGED <<stage, going, toClient>>
           ELSE /\ stage' = [stage EXCEPT ![u] = "writing"]
                /\ going' = [going EXCEPT ![u] = p.room]
                /\ Broadcast(roster, System("left", u))
        /\ UNCHANGED <<roster, about, ui, doings>>

\* ... state->room = packet->room, of which the end is this step.
Written(u) ==
    /\ stage[u] = "writing"
    /\ about' = [about EXCEPT ![u].room = going[u]]
    /\ stage' = [stage EXCEPT ![u] = "arrived"]
    /\ UNCHANGED <<roster, going, toServer, toClient, ui, doings>>

\* OnPacket(ChatPacket): author and room are the server's; a text of which
\* Sanitize leaves nothing is not passed on.  typed is where the user was when
\* they typed it, which no packet carries.
Chat(u) ==
    /\ stage[u] = "idle" /\ toServer[u] # <<>> /\ Head(toServer[u]).kind = "chat"
    /\ toServer' = [toServer EXCEPT ![u] = Tail(@)]
    /\ \/ UNCHANGED toClient
       \/ Broadcast(roster, [kind |-> "chat", room |-> about[u].room, name |-> about[u].name,
                             author |-> u, typed |-> Head(toServer[u]).room])
    /\ UNCHANGED <<roster, about, stage, going, ui, doings>>

\* OnClientDisconnected: off the roster, then, under the lock again, "left".
Disconnected(u) ==
    /\ stage[u] = "idle" /\ ui[u].quit
    /\ roster' = roster \ {u}
    /\ stage' = [stage EXCEPT ![u] = "dropped"]
    /\ UNCHANGED <<about, going, toServer, toClient, ui, doings>>

AnnounceLeft(u) ==
    /\ stage[u] = "dropped"
    /\ stage' = [stage EXCEPT ![u] = "gone"]
    /\ Broadcast(roster, System("left", u))
    /\ UNCHANGED <<roster, about, going, toServer, ui, doings>>

-----------------------------------------------------------------------------
\* The client: the screen's thread and the network's, over UiModel's mutex.

\* OnConnected: the session becomes usable; the server may be ahead or behind.
OnConnected(u) ==
    /\ ~ui[u].session /\ ~ui[u].quit
    /\ ui' = [ui EXCEPT ![u].session = TRUE]
    /\ UNCHANGED <<roster, about, stage, going, toServer, toClient, doings>>

\* UiModel::Append, scrollback and all.
Appended(lines, line) ==
    LET all == Append(lines, line)
    IN  IF Len(all) > Scrollback THEN Tail(all) ELSE all

\* What the handlers do with a packet: the welcome names the user and, when no
\* room is chosen, chooses the first; the rest is a line of its room.
Shown(m, p) ==
    IF p.kind = "welcome"
    THEN [m EXCEPT !.name = p.name, !.rooms = Rooms, !.room = IF @ = NoText THEN Rooms[1] ELSE @]
    ELSE [m EXCEPT !.history[p.room] = Appended(@, p @@ [self |-> p.name = m.name])]

OnChatPacket(u) ==
    /\ ui[u].session /\ ~ui[u].quit /\ toClient[u] # <<>>
    /\ ui' = [ui EXCEPT ![u] = Shown(@, Head(toClient[u]))]
    /\ toClient' = [toClient EXCEPT ![u] = Tail(@)]
    /\ UNCHANGED <<roster, about, stage, going, toServer, doings>>

\* The menu is the client's own list, there before the welcome is.
OnChange_OwnList(u, room) ==
    /\ doings < MaxDoings /\ ~ui[u].quit
    /\ room # ui[u].room
    /\ ui' = [ui EXCEPT ![u].room = room]
    /\ toServer' = IF ui[u].session
                   THEN [toServer EXCEPT ![u] = Append(@, [kind |-> "select", room |-> room])]
                   ELSE toServer
    /\ doings' = doings + 1
    /\ UNCHANGED <<roster, about, stage, going, toClient>>

\* menu_option.on_change: another room, of those the server listed.
OnChange(u, room) ==
    /\ doings < MaxDoings /\ ~ui[u].quit
    /\ room \in ToSet(ui[u].rooms) /\ room # ui[u].room
    /\ ui' = [ui EXCEPT ![u].room = room]
    /\ toServer' = IF ui[u].session
                   THEN [toServer EXCEPT ![u] = Append(@, [kind |-> "select", room |-> room])]
                   ELSE toServer
    /\ doings' = doings + 1
    /\ UNCHANGED <<roster, about, stage, going, toClient>>

\* input_option.on_enter: only with a session; the packet names no room.
OnEnter(u) ==
    /\ doings < MaxDoings /\ ui[u].session /\ ~ui[u].quit
    /\ toServer' = [toServer EXCEPT ![u] = Append(@, [kind |-> "chat", room |-> ui[u].room])]
    /\ doings' = doings + 1
    /\ UNCHANGED <<roster, about, stage, going, toClient, ui>>

\* The screen is closed: the session is dropped and the client disconnects.
Quit(u) ==
    /\ u \in Leavers /\ ~ui[u].quit /\ stage[u] # "away"
    /\ ui' = [ui EXCEPT ![u].quit = TRUE, ![u].session = FALSE]
    /\ toClient' = [toClient EXCEPT ![u] = <<>>]
    /\ UNCHANGED <<roster, about, stage, going, toServer, doings>>

ChatNext == \E u \in Users :
    \/ Connected(u) \/ SendWelcome(u) \/ Announce(u) \/ Disconnected(u) \/ AnnounceLeft(u)
    \/ SelectRoom(u) \/ Written(u) \/ Chat(u)
    \/ OnConnected(u) \/ OnChatPacket(u) \/ OnEnter(u) \/ Quit(u)
    \/ \E room \in ToSet(Rooms) : OnChange(u, room)

-----------------------------------------------------------------------------
\* What a client was told of a room: on its screen, and on the way.
Told(u, room) ==
    ui[u].history[room] \o SelectSeq(toClient[u], LAMBDA p : p.kind # "welcome" /\ p.room = room)

(* BroadcastSystem, client/main.cc's Append: whoever sat in a room throughout
   can tell from the last line about another user whether that user is there:
   "joined" and "left" are never lost, repeated or out of step with the roster,
   as long as no second user is given the same name. *)
PresenceTrue ==
    \A u \in Users : \A v \in Users \ {u} :
        (/\ stage[u] = "idle" /\ ~ui[u].quit /\ about[u].room = Rooms[1] /\ going[u] = NoText
         /\ stage[v] \in {"idle", "gone"}
         /\ \A w \in Users \ {v} : about[w].name # about[v].name) =>
        LET lines == SelectSeq(Told(u, Rooms[1]),
                               LAMBDA p : p.kind \in {"joined", "left"} /\ p.name = about[v].name)
        IN  lines # <<>> =>
                (Last(lines).kind = "joined" <=> stage[v] = "idle" /\ about[v].room = Rooms[1])

(* "The server assigned the name and stamps every message with it, so this
   comparison is reliable rather than a guess about who we are."
   (client/main.cc:124-125) *)
SelfKnown ==
    \A u \in Users : \A r \in ToSet(Rooms) : \A i \in DOMAIN ui[u].history[r] :
        LET line == ui[u].history[r][i]
        IN  line.kind = "chat" => (line.self <=> line.author = u)

(* "message->text = draft;  // author and room are the server's to fill in"
   (client/main.cc:290): what a user types appears in the room their screen showed,
   although the room is switched on the screen before the server hears of it,
   and before a welcome it appears in the first room. *)
SaidWhereTyped ==
    \A u \in Users : \A r \in ToSet(Rooms) : \A i \in DOMAIN ui[u].history[r] :
        LET line == ui[u].history[r][i]
        IN  line.kind = "chat" => line.room = (IF line.typed = NoText THEN Rooms[1] ELSE line.typed)

(* What the screens of the chat show is so: who is in the room, which lines are
   one's own, and where each was said. *)
ScreensTrue == PresenceTrue /\ SelfKnown /\ SaidWhereTyped
=============================================================================
