----------------------------- MODULE MessageServer ----------------------------
(***************************************************************************)
(* The server (server/Server.cs, server/Message, server/Database) and the  *)
(* service that relays to it (service/Worker.cs, service/Client.cs).  Each *)
(* message has a connection of its own and is handled by a pool thread, so *)
(* the handlers' queries interleave.                                       *)
(*                                                                         *)
(* A message consists of items of three units: the packet header, the code *)
(* that follows it, and the rest.                                          *)
(***************************************************************************)
EXTENDS Integers, Sequences, FiniteSets

CONSTANTS
    ConnCount,      \* connections the service makes, one for each message
    Messages,       \* what is sent
    SteamIds,
    Serials,        \* hardware: the motherboard's and the drive's serials
    None

\* "send" messages carry hardware; "report" messages carry reports, each with a
\* code and a body that may be all zero (where the handler's test for that looks
\* at the body only, and not also at the code).
ASSUME MessagesAssumption ==
    /\ ConnCount \in Nat \ {0} /\ None \notin Serials
    /\ \A m \in Messages :
        /\ m.kind \in {"send", "report", "request"} /\ m.id \in SteamIds
        /\ m.kind = "send" => /\ m.code \in {"system_information", "unknown"}
                              /\ m.hardware \in Serials
        /\ m.kind = "report" =>
            /\ m.reports \in Seq([code : STRING, empty : BOOLEAN]) /\ Len(m.reports) > 0
            /\ \A i \in 1..Len(m.reports) : m.reports[i].empty =>
                   m.reports[i].code \notin {"module_validation", "process_allocation"}

Conns == 1..ConnCount
UNITS == 3
Size(m) == IF m.kind = "report" THEN UNITS * Len(m.reports) ELSE UNITS

VARIABLES
    server_pc,      \* where each connection's handler is
    message,        \* what was sent on it
    received,       \* units Listen read
    bytes_read,     \* ClientReport._bytesRead, in units
    inserted,       \* InsertUser was called: the user is added by SaveChanges
    response,       \* the response packet
    users,          \* rows of Users with a Steam64Id
    hardware,       \* rows of HardwareConfiguration
    banned_users,   \* Steam64Ids with IsBanned
    banned_serials, \* serials with IsBanned
    stored,         \* reports each connection saved
    crashed,        \* an exception left a pool thread: the server has ended
    was_banned      \* the user, the hardware was banned when the handler started

server_vars == <<server_pc, message, received, bytes_read, inserted, response,
                 users, hardware, banned_users, banned_serials, stored, crashed,
                 was_banned>>

Stages == {"new", "lost", "sent", "dropped", "dispatch", "exists", "banned",
           "hardware_banned", "hardware_exists", "save", "reports", "spinning",
           "refused", "reply", "replied", "relayed"}
Responses == {"none", "proceed", "user_ban", "hardware_ban", "success"}

ServerTypeOK ==
    /\ server_pc \in [Conns -> Stages]
    /\ message \in [Conns -> Messages \cup {None}]
    /\ \A c \in Conns : received[c] \in 0..(IF message[c] = None THEN 0
                                            ELSE Size(message[c]))
    /\ bytes_read \in [Conns -> Nat]
    /\ inserted \in [Conns -> BOOLEAN]
    /\ response \in [Conns -> Responses]
    /\ users \in [SteamIds -> 0..Cardinality(Conns)]
    /\ hardware \subseteq [id : SteamIds, serial : Serials]
    /\ banned_users \subseteq SteamIds /\ banned_serials \subseteq Serials
    /\ \A c \in Conns : stored[c] \in Seq(Nat)
    /\ crashed \in BOOLEAN
    /\ was_banned \in [Conns -> [user : BOOLEAN, hardware : BOOLEAN]]

ServerInit ==
    /\ server_pc = [c \in Conns |-> "new"]
    /\ message = [c \in Conns |-> None]
    /\ received = [c \in Conns |-> 0]
    /\ bytes_read = [c \in Conns |-> 0]
    /\ inserted = [c \in Conns |-> FALSE]
    /\ response = [c \in Conns |-> "none"]
    /\ users = [id \in SteamIds |-> 0]
    /\ hardware = {} /\ banned_users = {} /\ banned_serials = {}
    /\ stored = [c \in Conns |-> <<>>]
    /\ crashed = FALSE
    /\ was_banned = [c \in Conns |-> [user |-> FALSE, hardware |-> FALSE]]

database == <<users, hardware, banned_users, banned_serials>>

Goto(c, stage) == server_pc' = [server_pc EXCEPT ![c] = stage]
Respond(c, r) == /\ response' = [response EXCEPT ![c] = r]
                 /\ Goto(c, "reply")

\* BytesToStructure: a structure the buffer does not hold completely is zero.
HasCode(c) == received[c] >= bytes_read[c] + 2
HasBody(c) == received[c] >= bytes_read[c] + 3
Id(c) == message[c].id
Hardware(c) == IF HasBody(c) THEN message[c].hardware ELSE None

-----------------------------------------------------------------------------
\* The service's loop reads a message from the pipe, connects and sends it, one
\* after the other.  Once the server has ended, connecting throws, which the loop
\* catches.
SendMessageToServer(c, m) ==
    /\ server_pc[c] = "new" /\ \A d \in 1..(c - 1) : server_pc[d] # "new"
    /\ message' = [message EXCEPT ![c] = m]
    /\ Goto(c, IF crashed THEN "lost" ELSE "sent")
    /\ UNCHANGED <<received, bytes_read, inserted, response, stored, crashed,
                   database, was_banned>>

Available(c) == Size(message[c])

\* Listen accepts connections in order and reads while data is available, which
\* may be before all of it is; a connection without data is given up.
Listen(c) ==
    /\ server_pc[c] = "sent" /\ ~crashed
    /\ \A d \in 1..(c - 1) : server_pc[d] # "sent"
    /\ \E units \in 0..Available(c) :
        /\ received' = [received EXCEPT ![c] = units]
        /\ Goto(c, IF units = 0 THEN "dropped" ELSE "dispatch")
    /\ UNCHANGED <<message, bytes_read, inserted, response, stored, crashed,
                   database, was_banned>>

\* DispatchMessage: the handler is chosen by the message type; its constructor
\* and HandleMessage look at the first code.
DispatchMessage(c) ==
    /\ server_pc[c] = "dispatch" /\ ~crashed
    /\ LET m == message[c]
       IN CASE m.kind = "request" \/ ~HasCode(c) -> Goto(c, "refused")
            [] m.kind = "report" /\ HasCode(c) -> Goto(c, "reports")
            [] m.kind = "send" /\ HasCode(c) ->
                   Goto(c, IF m.code = "system_information" THEN "exists" ELSE "reply")
    /\ was_banned' = [was_banned EXCEPT ![c] =
           [user |-> Id(c) \in banned_users,
            hardware |-> message[c].kind = "send" /\ Hardware(c) \in banned_serials]]
    /\ UNCHANGED <<message, received, bytes_read, inserted, response, stored,
                   crashed, database>>

-----------------------------------------------------------------------------
\* HandleClientSendHardwareInformation, one query after the other.

CheckIfUserExists(c) ==
    /\ server_pc[c] = "exists" /\ ~crashed
    /\ IF users[Id(c)] > 0
       THEN Goto(c, "banned") /\ UNCHANGED inserted
       ELSE /\ Goto(c, "hardware_banned")
            /\ inserted' = [inserted EXCEPT ![c] = TRUE]
    /\ UNCHANGED <<message, received, bytes_read, response, stored, crashed,
                   database, was_banned>>

CheckIfUserIsBanned(c) ==
    /\ server_pc[c] = "banned" /\ ~crashed
    /\ IF Id(c) \in banned_users THEN Respond(c, "user_ban")
       ELSE Goto(c, "hardware_banned") /\ UNCHANGED response
    /\ UNCHANGED <<message, received, bytes_read, inserted, stored, crashed,
                   database, was_banned>>

HardwareBanApplies(c) == Hardware(c) \in banned_serials

\* A new user with banned hardware is not saved.
CheckIfHardwareIsBanned(c) ==
    /\ server_pc[c] = "hardware_banned" /\ ~crashed
    /\ IF HardwareBanApplies(c) THEN Respond(c, "hardware_ban")
       ELSE Goto(c, "hardware_exists") /\ UNCHANGED response
    /\ UNCHANGED <<message, received, bytes_read, inserted, stored, crashed,
                   database, was_banned>>

UsersHardwareExists(c) == \E row \in hardware : row.id = Id(c)

CheckIfUsersHardwareExists(c) ==
    /\ server_pc[c] = "hardware_exists" /\ ~crashed
    /\ IF UsersHardwareExists(c) THEN Respond(c, "proceed")
       ELSE Goto(c, "save") /\ UNCHANGED response
    /\ UNCHANGED <<message, received, bytes_read, inserted, stored, crashed,
                   database, was_banned>>

\* Mutant: the new user is left out.
SaveHardwareOnly(c) == users

UsersAfterSave(c) ==
    IF inserted[c] THEN [users EXCEPT ![Id(c)] = @ + 1] ELSE users

\* InsertHardwareConfiguration and SaveChanges; the serials are required.
SaveChanges(c) ==
    /\ server_pc[c] = "save" /\ ~crashed
    /\ IF Hardware(c) = None
       THEN crashed' = TRUE /\ UNCHANGED <<users, hardware, server_pc, response>>
       ELSE /\ users' = UsersAfterSave(c)
            /\ hardware' = hardware \cup {[id |-> Id(c), serial |-> Hardware(c)]}
            /\ Respond(c, "proceed")
            /\ UNCHANGED crashed
    /\ UNCHANGED <<message, received, bytes_read, inserted, stored, banned_users,
                   banned_serials, was_banned>>

-----------------------------------------------------------------------------
\* ClientReport.HandleMessage.

\* Mutant: the size of a larger kind of report is added.
SkipReport(c) == bytes_read[c] + 2 * UNITS

\* The size of the report and of the packet header.
NextReport(c) == bytes_read[c] + UNITS

\* HandleReport*: a report of zeros is ignored, and so is one whose body was not
\* received, except that the array of a process allocation is then null; the
\* user must exist, or First throws; the report and its typed part are saved
\* together.
HandleReport(c, i) ==
    LET report == message[c].reports[i]
        ignored == ~HasBody(c) \/ report.empty
        throws == IF ignored THEN report.code = "process_allocation"
                  ELSE users[Id(c)] = 0
    IN /\ crashed' = throws
       /\ stored' = IF ignored \/ throws THEN stored
                    ELSE [stored EXCEPT ![c] = Append(@, i)]

\* One iteration of the loop, or its end.  The first kind of report does not
\* advance; an unknown code, and a code that was not received, end it.
HandleMessage(c) ==
    /\ server_pc[c] = "reports" /\ ~crashed
    /\ IF bytes_read[c] >= received[c]
       THEN Respond(c, "success") /\ UNCHANGED <<bytes_read, stored, crashed>>
       ELSE LET i == bytes_read[c] \div UNITS + 1
                code == IF HasCode(c) THEN message[c].reports[i].code ELSE "zero"
            IN /\ CASE code \in {"zero", "unknown"} ->
                           Goto(c, "refused") /\ UNCHANGED <<bytes_read, stored, crashed>>
                    [] code = "process_module_verification" ->
                           Goto(c, "spinning") /\ UNCHANGED <<bytes_read, stored, crashed>>
                    [] OTHER ->
                           /\ HandleReport(c, i)
                           /\ bytes_read' = [bytes_read EXCEPT ![c] = NextReport(c)]
                           /\ UNCHANGED server_pc
               /\ UNCHANGED response
    /\ UNCHANGED <<message, received, inserted, database, was_banned>>

-----------------------------------------------------------------------------
\* Mutant: the handler returns before the answer to a banned user is sent.
ReplyIfSaved(c) == server_pc[c] = "reply" /\ ~crashed /\ response[c] # "user_ban"

CanReply(c) == server_pc[c] = "reply" /\ ~crashed

SendResponsePacketToClient(c) ==
    /\ CanReply(c)
    /\ Goto(c, "replied")
    /\ UNCHANGED <<message, received, bytes_read, inserted, response, stored,
                   crashed, database, was_banned>>

\* A pool thread of the service waits for the response and writes it to the
\* pipe, in any order with those of other messages.
RelayResponseMessage(c) ==
    /\ server_pc[c] = "replied"
    /\ Goto(c, "relayed")
    /\ UNCHANGED <<message, received, bytes_read, inserted, response, stored,
                   crashed, database, was_banned>>

\* An administrator bans users and hardware in the database.
Ban ==
    /\ \/ \E id \in SteamIds : /\ users[id] > 0
                               /\ banned_users' = banned_users \cup {id}
                               /\ UNCHANGED banned_serials
       \/ \E row \in hardware : /\ banned_serials' = banned_serials \cup {row.serial}
                                /\ UNCHANGED banned_users
    /\ UNCHANGED <<server_pc, message, received, bytes_read, inserted, response, users,
                   hardware, stored, crashed, was_banned>>

Handler(c) ==
    \/ DispatchMessage(c)
    \/ CheckIfUserExists(c)
    \/ CheckIfUserIsBanned(c)
    \/ CheckIfHardwareIsBanned(c)
    \/ CheckIfUsersHardwareExists(c)
    \/ SaveChanges(c)
    \/ HandleMessage(c)
    \/ SendResponsePacketToClient(c)

ServerNext ==
    \/ \E c \in Conns :
          \/ \E m \in Messages : SendMessageToServer(c, m)
          \/ Listen(c)
          \/ Handler(c)
          \/ RelayResponseMessage(c)
    \/ Ban

ServerSpec == ServerInit /\ [][ServerNext]_server_vars

\* The listener keeps accepting, and the pools of the server and of the service
\* run what was queued.
ServerFairSpec ==
    /\ ServerSpec
    /\ \A c \in Conns :
        /\ WF_server_vars(Listen(c))
        /\ WF_server_vars(Handler(c))
        /\ WF_server_vars(RelayResponseMessage(c))

-----------------------------------------------------------------------------
ServerComplete(c) == message[c] # None /\ received[c] = Size(message[c])

\* Whoever is told to proceed was not banned when the handler started, neither
\* the user nor the hardware that was received (HandleClientSendHardwareInformation,
\* server/Message/ClientSend.cs:82), and is in the database, with hardware, so that
\* GetUserBySteamId finds them for every report that follows, whichever handlers
\* ran in between (server/Message/ClientSend.cs:135-146).
ProceedMeansAdmitted ==
    \A c \in Conns : response[c] = "proceed" =>
        /\ ~was_banned[c].user /\ ~was_banned[c].hardware
        /\ users[Id(c)] > 0 /\ \E row \in hardware : row.id = Id(c)

\* Of the first n reports of a message those that are not zero are stored, each
\* once and in the order they came in.
StoredUpTo(c, n) ==
    /\ {stored[c][j] : j \in 1..Len(stored[c])} = {i \in 1..n : ~message[c].reports[i].empty}
    /\ \A j, k \in 1..Len(stored[c]) : j < k => stored[c][j] < stored[c][k]

\* When a message that was received completely is acknowledged, each of its
\* reports that is not zero has been stored once, in order
\* (ClientReport.HandleMessage, server/Message/ClientReport.cs:81).
AcknowledgedReportsStored ==
    \A c \in Conns : response[c] = "success" /\ ServerComplete(c) =>
        StoredUpTo(c, Len(message[c].reports))

\* A handler exists for everything in the message.
Answerable(c) ==
    /\ ServerComplete(c)
    /\ message[c].kind = "send" \/
       (message[c].kind = "report" /\
        \A i \in 1..Len(message[c].reports) :
            message[c].reports[i].code \notin {"zero", "unknown", "process_module_verification"})

\* Every completely received message with known codes is answered, and the
\* answer reaches the client's pipe, unless the server has ended
\* (MessageHandler, server/Message/MessageHandler.cs:48; service/Worker.cs:79).
MessagesAnswered ==
    \A c \in Conns : Answerable(c) ~> (server_pc[c] = "relayed" \/ crashed)
===============================================================================
