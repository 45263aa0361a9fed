------------------------ MODULE ModulesAndServerProofs ------------------------
(***************************************************************************)
(* Two components that share no state with the others: the verification   *)
(* of the running modules by work items, and the server that receives the  *)
(* reports.                                                                *)
(***************************************************************************)
EXTENDS ModuleVerification, MessageServer, FiniteSetTheorems, TLAPS

\* Zenon first: it needs far less time than the translation for SMT.
USE ZenonT(10), SMTT(30)

-----------------------------------------------------------------------------
(* The message server.                                                     *)

ServerTypes ==
    /\ server_pc \in [Conns -> Stages]
    /\ message \in [Conns -> Messages \cup {None}]
    /\ DOMAIN received = Conns /\ DOMAIN bytes_read = Conns
    /\ inserted \in [Conns -> BOOLEAN]
    /\ response \in [Conns -> Responses]
    /\ users \in [SteamIds -> Nat]
    /\ was_banned \in [Conns -> [user : BOOLEAN, hardware : BOOLEAN]]

\* A handler works on a message that was sent, and its answer comes last.
Sent ==
    \A c \in Conns :
        /\ server_pc[c] # "new" => message[c] \in Messages
        /\ response[c] = "proceed" => server_pc[c] \in {"reply", "replied", "relayed"}

\* Hardware belongs to a user, and so does a ban.
Rows ==
    /\ \A row \in hardware : row.id \in SteamIds /\ users[row.id] > 0
    /\ \A id \in banned_users : id \in SteamIds /\ users[id] > 0

Checking == {"banned", "hardware_banned", "hardware_exists", "save"}

\* What each query has established by the time the next one runs.
Checked ==
    \A c \in Conns :
        /\ server_pc[c] \in {"exists", "banned"} /\ was_banned[c].user => Id(c) \in banned_users
        /\ server_pc[c] \in {"exists", "banned", "hardware_banned"} /\ was_banned[c].hardware =>
               Hardware(c) \in banned_serials
        /\ server_pc[c] \in Checking /\ ~inserted[c] => users[Id(c)] > 0
        /\ server_pc[c] \in {"hardware_banned", "hardware_exists", "save"} => ~was_banned[c].user
        /\ server_pc[c] \in {"hardware_exists", "save"} => ~was_banned[c].hardware

AdmitInv == ServerTypes /\ Sent /\ Rows /\ Checked /\ ProceedMeansAdmitted
-----------------------------------------------------------------------------
\* It holds at the start.
LEMMA AdmitInit == ServerInit => AdmitInv
<1> SUFFICES ASSUME ServerInit PROVE AdmitInv
  OBVIOUS
<1>1. ServerTypes
  <2>1. was_banned \in [Conns -> [user : BOOLEAN, hardware : BOOLEAN]]
    BY DEF ServerInit
  <2>2. inserted \in [Conns -> BOOLEAN]
    BY DEF ServerInit
  <2> QED BY <2>1, <2>2 DEF ServerInit, ServerTypes, Stages, Responses
<1>2. Sent /\ Rows /\ Checked /\ ProceedMeansAdmitted
  BY DEF ServerInit, Sent, Rows, Checked, Checking, ProceedMeansAdmitted
<1> QED BY <1>1, <1>2 DEF AdmitInv

\* A step that leaves the answers, the rows and the other handlers alone keeps
\* what the others have established.
LEMMA MovesKeep ==
    ASSUME AdmitInv, NEW c \in Conns, NEW stage \in Stages, Goto(c, stage),
           UNCHANGED <<users, hardware, banned_users, banned_serials, was_banned,
                       response, message, received, bytes_read, inserted>>,
           server_pc[c] \notin {"new"}, stage \notin {"new", "exists"} \cup Checking,
           response[c] = "proceed" => stage \in {"reply", "replied", "relayed"}
    PROVE  AdmitInv'
<1> USE DEF AdmitInv, Goto
<1>1. ServerTypes'
  BY DEF ServerTypes
<1>2. Sent'
  BY DEF Sent, ServerTypes
<1>3. Rows' /\ ProceedMeansAdmitted'
  BY DEF Rows, ProceedMeansAdmitted, Id
<1>4. Checked'
  BY DEF Checked, ServerTypes, Checking, Id, Hardware, HasBody
<1> QED BY <1>1, <1>2, <1>3, <1>4

\* Sending and receiving.
LEMMA ListenKeeps ==
    ASSUME AdmitInv, NEW c \in Conns,
           (\E m \in Messages : SendMessageToServer(c, m)) \/ Listen(c)
    PROVE  AdmitInv'
<1> USE DEF AdmitInv, Goto, database
<1>1. CASE \E m \in Messages : SendMessageToServer(c, m)
  <2>1. PICK m \in Messages : SendMessageToServer(c, m)
    BY <1>1
  <2>2. ServerTypes'
    BY <2>1 DEF SendMessageToServer, ServerTypes, Stages
  <2>3. Sent' /\ response[c] # "proceed"
    BY <2>1 DEF SendMessageToServer, Sent, ServerTypes
  <2>4. Rows' /\ ProceedMeansAdmitted'
    BY <2>1, <2>3 DEF SendMessageToServer, Rows, ProceedMeansAdmitted, Id, ServerTypes
  <2>5. Checked'
    BY <2>1 DEF SendMessageToServer, Checked, ServerTypes, Checking, Id, Hardware, HasBody
  <2> QED BY <2>2, <2>3, <2>4, <2>5
<1>2. CASE Listen(c)
  <2>1. PICK stage \in {"dropped", "dispatch"} : server_pc' = [server_pc EXCEPT ![c] = stage]
    BY <1>2 DEF Listen
  <2>2. PICK units : received' = [received EXCEPT ![c] = units]
    BY <1>2 DEF Listen
  <2>3. ServerTypes'
    BY <1>2, <2>1 DEF Listen, ServerTypes, Stages
  <2>4. Sent' /\ Rows' /\ ProceedMeansAdmitted'
    BY <1>2, <2>1 DEF Listen, Sent, Rows, ProceedMeansAdmitted, Id, ServerTypes
  <2>5. \A d \in Conns : d # c => received'[d] = received[d]
    BY <2>2 DEF ServerTypes
  <2>6. Checked'
    BY <1>2, <2>1, <2>5 DEF Listen, Checked, ServerTypes, Checking, Id, Hardware, HasBody
  <2> QED BY <2>3, <2>4, <2>6
<1> QED BY <1>1, <1>2

\* The handler starts.
LEMMA DispatchKeeps ==
    ASSUME AdmitInv, NEW c \in Conns, DispatchMessage(c)
    PROVE  AdmitInv'
<1> USE DEF AdmitInv, Goto, database
<1> DEFINE entered == {"refused", "reports", "exists", "reply"}
<1>1. message[c] \in Messages /\ response[c] # "proceed"
  BY DEF DispatchMessage, Sent
<1>2. PICK stage \in entered : server_pc' = [server_pc EXCEPT ![c] = stage]
  BY <1>1, MessagesAssumption DEF DispatchMessage
<1>3. ServerTypes'
  <2>1. was_banned' \in [Conns -> [user : BOOLEAN, hardware : BOOLEAN]]
    BY SMTT(30) DEF DispatchMessage, ServerTypes
  <2> QED BY <1>2, <2>1 DEF DispatchMessage, ServerTypes, Stages
<1>4. Sent'
  BY <1>1, <1>2 DEF DispatchMessage, Sent, ServerTypes
<1>5. Rows' /\ ProceedMeansAdmitted'
  BY <1>1 DEF DispatchMessage, Rows, ProceedMeansAdmitted, Id, ServerTypes
<1>6. Checked'
  BY <1>2 DEF DispatchMessage, Checked, ServerTypes, Checking, Id, Hardware, HasBody
<1> QED BY <1>3, <1>4, <1>5, <1>6

\* The four queries.
LEMMA QueriesKeep ==
    ASSUME AdmitInv, NEW c \in Conns,
           \/ CheckIfUserExists(c) \/ CheckIfUserIsBanned(c)
           \/ CheckIfHardwareIsBanned(c) \/ CheckIfUsersHardwareExists(c)
    PROVE  AdmitInv'
<1> USE DEF AdmitInv, Goto, Respond, database
<1>1. message[c] \in Messages /\ Id(c) \in SteamIds /\ response[c] # "proceed"
  BY MessagesAssumption DEF CheckIfUserExists, CheckIfUserIsBanned, CheckIfHardwareIsBanned,
     CheckIfUsersHardwareExists, Sent, Id
<1>2. CASE CheckIfUserExists(c)
  <2>1. ServerTypes'
    BY <1>2 DEF CheckIfUserExists, ServerTypes, Stages
  <2>2. Sent' /\ Rows' /\ ProceedMeansAdmitted'
    BY <1>1, <1>2 DEF CheckIfUserExists, Sent, Rows, ProceedMeansAdmitted, Id, ServerTypes
  <2>3. Checked'
    BY <1>1, <1>2 DEF CheckIfUserExists, Checked, Rows, ServerTypes, Checking, Id, Hardware, HasBody
  <2> QED BY <2>1, <2>2, <2>3
<1>3. CASE CheckIfUserIsBanned(c)
  <2>1. ServerTypes'
    BY <1>3 DEF CheckIfUserIsBanned, ServerTypes, Stages, Responses
  <2>2. Sent' /\ Rows' /\ ProceedMeansAdmitted'
    BY <1>1, <1>3 DEF CheckIfUserIsBanned, Sent, Rows, ProceedMeansAdmitted, Id, ServerTypes
  <2>3. Checked'
    BY <1>1, <1>3 DEF CheckIfUserIsBanned, Checked, ServerTypes, Checking, Id, Hardware, HasBody
  <2> QED BY <2>1, <2>2, <2>3
<1>4. CASE CheckIfHardwareIsBanned(c)
  <2>1. ServerTypes'
    BY <1>4 DEF CheckIfHardwareIsBanned, ServerTypes, Stages, Responses
  <2>2. Sent' /\ Rows' /\ ProceedMeansAdmitted'
    BY <1>1, <1>4 DEF CheckIfHardwareIsBanned, Sent, Rows, ProceedMeansAdmitted, Id, ServerTypes
  <2>3. Checked'
    BY <1>1, <1>4 DEF CheckIfHardwareIsBanned, HardwareBanApplies, Checked, ServerTypes,
                      Checking, Id, Hardware, HasBody
  <2> QED BY <2>1, <2>2, <2>3
<1>5. CASE CheckIfUsersHardwareExists(c)
  <2>1. ServerTypes'
    BY <1>5 DEF CheckIfUsersHardwareExists, ServerTypes, Stages, Responses
  <2>2. Sent' /\ Rows'
    BY <1>1, <1>5 DEF CheckIfUsersHardwareExists, Sent, Rows, ServerTypes
  <2>3. ProceedMeansAdmitted'
    BY <1>1, <1>5 DEF CheckIfUsersHardwareExists, UsersHardwareExists, Checked, Rows,
                      ProceedMeansAdmitted, Id, ServerTypes
  <2>4. Checked'
    BY <1>1, <1>5 DEF CheckIfUsersHardwareExists, Checked, ServerTypes, Checking, Id, Hardware,
                      HasBody
  <2> QED BY <2>1, <2>2, <2>3, <2>4
<1> QED BY <1>2, <1>3, <1>4, <1>5

\* The rows are added.
LEMMA SaveKeeps ==
    ASSUME AdmitInv, NEW c \in Conns, SaveChanges(c)
    PROVE  AdmitInv'
<1> USE DEF AdmitInv, Goto, Respond
<1>1. message[c] \in Messages /\ Id(c) \in SteamIds /\ response[c] # "proceed"
  BY MessagesAssumption DEF SaveChanges, Sent, Id
<1>2. CASE Hardware(c) = None
  <2>1. UNCHANGED <<server_pc, message, received, bytes_read, inserted, response, users, hardware,
                    banned_users, banned_serials, was_banned>>
    BY <1>2 DEF SaveChanges
  <2> QED BY <2>1 DEF ServerTypes, Sent, Rows, Checked, ProceedMeansAdmitted, Id, Hardware, HasBody
<1>3. CASE Hardware(c) # None
  <2>1. /\ users' \in [SteamIds -> Nat] /\ users'[Id(c)] > 0
        /\ \A id \in SteamIds : users'[id] >= users[id]
    <3>1. /\ users' = UsersAfterSave(c) /\ users \in [SteamIds -> Nat]
          /\ Id(c) \in SteamIds /\ server_pc[c] = "save"
      BY <1>1, <1>3 DEF SaveChanges, ServerTypes
    <3>2. CASE inserted[c]
      <4>1. users' = [users EXCEPT ![Id(c)] = @ + 1]
        BY ONLY <3>1, <3>2 DEF UsersAfterSave
      <4> QED BY ONLY <3>1, <4>1
    <3>3. CASE ~inserted[c]
      <4>1. users' = users
        BY ONLY <3>1, <3>3 DEF UsersAfterSave
      <4>2. users[Id(c)] > 0
        BY <3>1, <3>3 DEF Checked, Checking
      <4> QED BY ONLY <3>1, <4>1, <4>2
    <3> QED BY ONLY <3>2, <3>3
  <2>2. hardware' = hardware \cup {[id |-> Id(c), serial |-> Hardware(c)]}
    BY <1>3 DEF SaveChanges
  <2>3. ServerTypes'
    BY <1>3, <2>1 DEF SaveChanges, ServerTypes, Stages, Responses
  <2>4. Sent'
    BY <1>1, <1>3 DEF SaveChanges, Sent, ServerTypes
  <2>5. Rows'
    BY SMTT(30), <1>1, <1>3, <2>1, <2>2 DEF SaveChanges, Rows, ServerTypes
  <2>6. ASSUME NEW d \in Conns, response'[d] = "proceed"
        PROVE  /\ ~was_banned'[d].user /\ ~was_banned'[d].hardware
               /\ users'[Id(d)'] > 0 /\ \E row \in hardware' : row.id = Id(d)'
    <3>1. CASE d = c
      <4>1. Id(c)' = Id(c) /\ server_pc[c] = "save" /\ was_banned' = was_banned
        BY <1>3 DEF SaveChanges, Id
      <4>2. [id |-> Id(c), serial |-> Hardware(c)] \in hardware'
        BY <2>2
      <4>3. ~was_banned[c].user /\ ~was_banned[c].hardware
        BY <4>1 DEF Checked
      <4> QED BY <2>1, <3>1, <4>1, <4>2, <4>3
    <3>2. CASE d # c
      <4>1. response[d] = "proceed" /\ message[d] \in Messages /\ Id(d)' = Id(d)
        BY <1>3, <2>6, <3>2 DEF SaveChanges, ServerTypes, Sent, Id
      <4>2. Id(d) \in SteamIds
        BY <4>1, MessagesAssumption DEF Id
      <4> QED BY SMTT(30), <1>3, <2>1, <2>2, <4>1, <4>2 DEF SaveChanges, ProceedMeansAdmitted, ServerTypes
    <3> QED BY <3>1, <3>2
  <2>7. ASSUME NEW d \in Conns, server_pc'[d] \in {"exists"} \cup Checking
        PROVE  d # c /\ message[d] \in Messages /\ Id(d) \in SteamIds
    BY <1>3, <2>7, MessagesAssumption DEF SaveChanges, ServerTypes, Sent, Id, Checking
  <2>8. Checked'
    BY SMTT(30), <1>3, <2>1, <2>7 DEF SaveChanges, Checked, ServerTypes, Checking, Id, Hardware, HasBody
  <2> QED BY <2>3, <2>4, <2>5, <2>6, <2>8 DEF ProceedMeansAdmitted
<1> QED BY <1>2, <1>3

\* Reports are handled; nobody is told to proceed.
LEMMA ReportsKeep ==
    ASSUME AdmitInv, NEW c \in Conns, HandleMessage(c)
    PROVE  AdmitInv'
<1> USE DEF AdmitInv, Goto, Respond, database
<1>1. PICK stage \in {"reports", "reply", "refused", "spinning"} :
          server_pc' = [server_pc EXCEPT ![c] = stage]
  BY DEF HandleMessage, ServerTypes
<1>2. PICK r \in {response[c], "success"} : response' = [response EXCEPT ![c] = r]
  BY DEF HandleMessage, ServerTypes
<1>3. server_pc[c] = "reports" /\ response[c] # "proceed"
  BY DEF HandleMessage, Sent
<1>4. \A d \in Conns : d # c => bytes_read'[d] = bytes_read[d]
  BY DEF HandleMessage, ServerTypes
<1>5. UNCHANGED <<message, received, inserted, users, hardware, banned_users, banned_serials,
                  was_banned>>
  BY DEF HandleMessage
<1>6. ServerTypes'
  <2>1. DOMAIN bytes_read' = Conns
    BY DEF HandleMessage, ServerTypes
  <2> QED BY <1>1, <1>2, <1>5, <2>1 DEF ServerTypes, Stages, Responses
<1>7. Sent' /\ Rows' /\ ProceedMeansAdmitted'
  BY <1>1, <1>2, <1>3, <1>5 DEF Sent, Rows, ProceedMeansAdmitted, Id, ServerTypes
<1>8. Checked'
  BY <1>1, <1>3, <1>4, <1>5 DEF Checked, ServerTypes, Checking, Id, Hardware, HasBody
<1> QED BY <1>6, <1>7, <1>8

\* The administrator bans.
LEMMA BanKeeps ==
    ASSUME AdmitInv, Ban
    PROVE  AdmitInv'
<1> USE DEF AdmitInv
<1>1. /\ banned_users \subseteq banned_users' /\ banned_serials \subseteq banned_serials'
      /\ \A id \in banned_users' : id \in SteamIds /\ users[id] > 0
      /\ UNCHANGED <<server_pc, message, received, bytes_read, inserted, response, users, hardware,
                     was_banned>>
  BY DEF Ban, Rows
<1>2. ServerTypes' /\ Sent' /\ Rows' /\ ProceedMeansAdmitted'
  BY <1>1 DEF ServerTypes, Sent, Rows, ProceedMeansAdmitted, Id
<1>3. Checked'
  BY <1>1 DEF Checked, Checking, Id, Hardware, HasBody
<1> QED BY <1>2, <1>3

\* Every step keeps the invariant.
LEMMA AdmitNext == AdmitInv /\ [ServerNext]_server_vars => AdmitInv'
<1> SUFFICES ASSUME AdmitInv, [ServerNext]_server_vars PROVE AdmitInv'
  OBVIOUS
<1>1. ASSUME NEW c \in Conns, SendResponsePacketToClient(c) PROVE AdmitInv'
  BY <1>1, MovesKeep DEF SendResponsePacketToClient, CanReply, database, Stages, Checking
<1>2. ASSUME NEW c \in Conns, RelayResponseMessage(c) PROVE AdmitInv'
  BY <1>2, MovesKeep DEF RelayResponseMessage, database, Stages, Checking
<1>3. CASE UNCHANGED server_vars
  BY SMTT(40), <1>3 DEF server_vars, AdmitInv, ServerTypes, Sent, Rows, Checked, ProceedMeansAdmitted, Id,
              Hardware, HasBody
<1> QED BY <1>1, <1>2, <1>3, ListenKeeps, DispatchKeeps, QueriesKeep, SaveKeeps, ReportsKeep,
           BanKeeps DEF ServerNext, Handler
-----------------------------------------------------------------------------
\* However many messages are handled at once, and whoever is banned meanwhile,
\* "proceed" is the answer only to a user that was not banned when the handler
\* started, whose hardware was not either, and whose rows exist
\* (HandleClientSendHardwareInformation).
THEOREM AdmissionTheorem == ServerSpec => []ProceedMeansAdmitted
<1>1. AdmitInv => ProceedMeansAdmitted
  BY DEF AdmitInv
<1> QED BY <1>1, AdmitInit, AdmitNext, PTL DEF ServerSpec
-----------------------------------------------------------------------------
Handled == {"reports", "reply", "replied", "relayed", "refused", "spinning"}

\* The loop has dealt with whole reports, and has stored those it dealt with
\* unless one of them ended the server.
ReportOf(c) ==
    /\ server_pc[c] \notin Handled => bytes_read[c] = 0 /\ stored[c] = <<>>
    /\ response[c] = "success" => server_pc[c] \in {"reply", "replied", "relayed"}
    /\ server_pc[c] = "reports" =>
           /\ message[c] \in Messages /\ message[c].kind = "report"
           /\ \E n \in Nat :
                  /\ bytes_read[c] = UNITS * n
                  /\ ~crashed /\ ServerComplete(c) =>
                         n <= Len(message[c].reports) /\ StoredUpTo(c, n)
    /\ response[c] = "success" /\ ServerComplete(c) => StoredUpTo(c, Len(message[c].reports))

ReportsInv ==
    /\ stored \in [Conns -> Seq(Nat)] /\ received \in [Conns -> Nat]
    /\ \A c \in Conns : ReportOf(c)

\* A connection that a step leaves alone.
LeftAlone(c) ==
    /\ server_pc'[c] = server_pc[c] /\ message'[c] = message[c] /\ received'[c] = received[c]
    /\ bytes_read'[c] = bytes_read[c] /\ response'[c] = response[c]
    /\ stored'[c] = stored[c] /\ (crashed => crashed')

LEMMA LeftAloneKeeps ==
    ASSUME NEW c \in Conns, ReportOf(c), LeftAlone(c)
    PROVE  ReportOf(c)'
<1>1. \A n : StoredUpTo(c, n) => StoredUpTo(c, n)'
  BY DEF LeftAlone, StoredUpTo
<1>2. ServerComplete(c)' <=> ServerComplete(c)
  BY DEF LeftAlone, ServerComplete, Size
<1>3. /\ server_pc'[c] = server_pc[c] /\ message'[c] = message[c] /\ bytes_read'[c] = bytes_read[c]
      /\ response'[c] = response[c] /\ stored'[c] = stored[c] /\ (~crashed' => ~crashed)
  BY DEF LeftAlone
<1> QED
  BY <1>1, <1>2, <1>3 DEF ReportOf

\* A handler that moves on without touching reports, but not into the loop.
LEMMA MovingKeeps ==
    ASSUME NEW c \in Conns, ReportOf(c), message'[c] = message[c],
           received'[c] = received[c], bytes_read'[c] = bytes_read[c],
           stored'[c] = stored[c], server_pc'[c] # "reports",
           server_pc[c] \notin Handled \/ server_pc'[c] \in {"reply", "replied", "relayed"},
           response'[c] = "success" =>
               response[c] = "success" /\ server_pc'[c] \in {"reply", "replied", "relayed"}
    PROVE  ReportOf(c)'
<1>1. \A n : StoredUpTo(c, n) => StoredUpTo(c, n)'
  BY DEF StoredUpTo
<1>2. ServerComplete(c)' <=> ServerComplete(c)
  BY DEF ServerComplete, Size
<1> QED
  BY <1>1, <1>2 DEF ReportOf, Handled

\* The numbers up to n that are to be kept, in order.
Kept(s, n, keep) ==
    /\ {s[j] : j \in 1..Len(s)} = (1..n) \cap keep
    /\ \A j, k \in 1..Len(s) : j < k => s[j] < s[k]

\* Storing the next one, if it is to be kept.
LEMMA StoreNext ==
    ASSUME NEW s \in Seq(Nat), NEW n \in Nat, NEW keep, Kept(s, n, keep),
           NEW t, t = IF n + 1 \in keep THEN Append(s, n + 1) ELSE s
    PROVE  Kept(t, n + 1, keep)
<1> USE DEF Kept
<1>1. 1..(n + 1) = (1..n) \cup {n + 1}
  BY SMTT(30)
<1>2. CASE n + 1 \notin keep
  BY <1>1, <1>2
<1>3. CASE n + 1 \in keep
  <2>1. /\ t \in Seq(Nat) /\ Len(s) \in Nat /\ Len(t) = Len(s) + 1 /\ t[Len(s) + 1] = n + 1
        /\ \A j \in 1..Len(s) : t[j] = s[j]
    BY SMTT(30), <1>3
  <2>2. 1..Len(t) = (1..Len(s)) \cup {Len(s) + 1}
    BY SMTT(30), <2>1
  <2>3. {t[j] : j \in 1..Len(t)} = {s[j] : j \in 1..Len(s)} \cup {n + 1}
    BY SMTT(30), <2>1, <2>2
  <2>4. \A j \in 1..Len(s) : s[j] \in 1..n
    OBVIOUS
  <2>5. ASSUME NEW j \in 1..Len(t), NEW k \in 1..Len(t), j < k PROVE t[j] < t[k]
    <3>1. j \in 1..Len(s)
      BY SMTT(30), <2>1, <2>5
    <3>2. CASE k = Len(s) + 1
      BY SMTT(30), <2>1, <2>4, <3>1, <3>2
    <3>3. CASE k \in 1..Len(s)
      BY <2>1, <2>5, <3>1, <3>3
    <3> QED
      BY <2>2, <3>2, <3>3
  <2> QED
    BY <1>1, <1>3, <2>1, <2>3, <2>5
<1> QED
  BY <1>2, <1>3

\* One iteration of the loop.
LEMMA HandleMessageStores ==
    ASSUME AdmitInv, ReportsInv, NEW c \in Conns, HandleMessage(c)
    PROVE  /\ stored' \in [Conns -> Seq(Nat)]
           /\ ReportOf(c)'
           /\ \A d \in Conns : d # c => LeftAlone(d)
<1>1. /\ server_pc[c] = "reports" /\ ~crashed /\ ReportOf(c) /\ stored[c] \in Seq(Nat)
      /\ received[c] \in Nat /\ UNCHANGED <<message, received>>
  BY DEF HandleMessage, ReportsInv
<1>2. PICK n \in Nat :
          /\ bytes_read[c] = UNITS * n
          /\ ServerComplete(c) => n <= Len(message[c].reports) /\ StoredUpTo(c, n)
  BY <1>1 DEF ReportOf
<1>a. bytes_read[c] = 3 * n /\ (ServerComplete(c) => n <= Len(message[c].reports))
  BY <1>2 DEF UNITS
<1>b. ServerComplete(c) => StoredUpTo(c, n)
  BY <1>2
<1>3. message[c] \in Messages /\ message[c].kind = "report" /\ response[c] # "success"
  BY <1>1 DEF ReportOf
<1>4. Len(message[c].reports) \in Nat
  BY SMTT(30), <1>3, MessagesAssumption
<1>5. ServerComplete(c) => received[c] = 3 * Len(message[c].reports)
  BY <1>3 DEF ServerComplete, Size, UNITS
<1>6. ServerComplete(c)' <=> ServerComplete(c)
  BY <1>1 DEF ServerComplete, Size
<1>7. CASE bytes_read[c] >= received[c]
  <2>1. /\ server_pc' = [server_pc EXCEPT ![c] = "reply"] /\ response' = [response EXCEPT ![c] = "success"]
        /\ UNCHANGED <<bytes_read, stored, crashed>>
    BY <1>7 DEF HandleMessage, Respond, Goto
  <2>2. server_pc'[c] = "reply" /\ response'[c] = "success"
    BY <2>1 DEF AdmitInv, ServerTypes
  <2>3. ServerComplete(c) => n = Len(message[c].reports)
    BY <1>a, <1>4, <1>5, <1>7
  <2>4. ServerComplete(c) => StoredUpTo(c, Len(message[c].reports))'
    BY <1>1, <1>b, <2>1, <2>3 DEF StoredUpTo
  <2>5. ReportOf(c)'
    BY <1>6, <2>2, <2>4 DEF ReportOf, Handled
  <2>6. \A d \in Conns : d # c => LeftAlone(d)
    BY <1>1, <2>1 DEF LeftAlone, AdmitInv, ServerTypes
  <2> QED
    BY <2>1, <2>5, <2>6 DEF ReportsInv
<1>8. CASE bytes_read[c] < received[c]
  <2> DEFINE i == bytes_read[c] \div UNITS + 1
             code == IF HasCode(c) THEN message[c].reports[i].code ELSE "zero"
  <2>0. ~(bytes_read[c] >= received[c])
    BY <1>1, <1>a, <1>8
  <2>1. response' = response
    BY <2>0 DEF HandleMessage
  <2>2. CASE code \in {"zero", "unknown", "process_module_verification"}
    <3>1. PICK stage \in {"refused", "spinning"} : server_pc' = [server_pc EXCEPT ![c] = stage]
      BY <2>0, <2>2 DEF HandleMessage, Goto
    <3>2. UNCHANGED <<bytes_read, stored, crashed>>
      BY <2>0, <2>2 DEF HandleMessage
    <3>3. server_pc'[c] \in {"refused", "spinning"}
      BY <3>1 DEF AdmitInv, ServerTypes
    <3>4. ReportOf(c)'
      BY <1>3, <2>1, <3>3 DEF ReportOf, Handled
    <3>5. \A d \in Conns : d # c => LeftAlone(d)
      BY <1>1, <2>1, <3>1, <3>2 DEF LeftAlone, AdmitInv, ServerTypes
    <3> QED
      BY <3>2, <3>4, <3>5 DEF ReportsInv
  <2>3. CASE code \notin {"zero", "unknown", "process_module_verification"}
    <3>1. HandleReport(c, i) /\ server_pc' = server_pc /\ bytes_read' = [bytes_read EXCEPT ![c] = NextReport(c)]
      BY <2>0, <2>3 DEF HandleMessage
    <3>2. i = n + 1
      BY <1>a DEF UNITS
    <3>3. /\ DOMAIN bytes_read = Conns /\ bytes_read'[c] = UNITS * (n + 1)
          /\ \A d \in Conns : d # c => bytes_read'[d] = bytes_read[d]
      BY <1>a, <3>1 DEF AdmitInv, ServerTypes, NextReport, UNITS
    <3>4. stored' = stored \/ stored' = [stored EXCEPT ![c] = Append(stored[c], n + 1)]
      BY <3>1, <3>2 DEF HandleReport
    <3>5. /\ stored' \in [Conns -> Seq(Nat)]
          /\ \A d \in Conns : d # c => stored'[d] = stored[d]
      <4>1. Append(stored[c], n + 1) \in Seq(Nat)
        BY <1>1
      <4> QED
        BY <3>4, <4>1 DEF ReportsInv
    <3>6. \A d \in Conns : d # c => LeftAlone(d)
      BY <1>1, <2>1, <3>1, <3>3, <3>5 DEF LeftAlone
    <3>7. ASSUME ServerComplete(c), ~crashed'
          PROVE  n + 1 <= Len(message[c].reports) /\ StoredUpTo(c, n + 1)'
      <4>1. n < Len(message[c].reports) /\ HasBody(c)
        BY <1>1, <1>a, <1>4, <1>5, <1>8, <3>7 DEF HasBody
      <4> DEFINE keep == {k \in Nat : ~message[c].reports[k].empty}
      <4>2. stored'[c] = IF n + 1 \in keep THEN Append(stored[c], n + 1) ELSE stored[c]
        <5>1. HandleReport(c, n + 1) /\ HasBody(c) /\ ~crashed' /\ stored \in [Conns -> Seq(Nat)]
          BY <3>1, <3>2, <3>7, <4>1 DEF ReportsInv
        <5>2. CASE message[c].reports[n + 1].empty
          BY <5>1, <5>2 DEF HandleReport
        <5>3. CASE ~message[c].reports[n + 1].empty
          <6>1. crashed' <=> users[Id(c)] = 0
            BY <5>1, <5>3 DEF HandleReport
          <6>2. stored' = [stored EXCEPT ![c] = Append(stored[c], n + 1)]
            BY <5>1, <5>3, <6>1 DEF HandleReport
          <6> QED
            BY <5>1, <5>3, <6>2
        <5> QED
          BY <5>2, <5>3
      <4>3. /\ {stored[c][j] : j \in 1..Len(stored[c])} = (1..n) \cap keep
            /\ \A j, k \in 1..Len(stored[c]) : j < k => stored[c][j] < stored[c][k]
        BY SMTT(30), <1>b, <3>7 DEF StoredUpTo
      <4> DEFINE s == stored[c]
                 t == stored'[c]
      <4> HIDE DEF keep, s, t
      <4>4. /\ {stored'[c][j] : j \in 1..Len(stored'[c])} = (1..(n + 1)) \cap keep
            /\ \A j, k \in 1..Len(stored'[c]) : j < k => stored'[c][j] < stored'[c][k]
        <5>1. s \in Seq(Nat) /\ t = IF n + 1 \in keep THEN Append(s, n + 1) ELSE s
          BY <1>1, <4>2 DEF s, t
        <5>2. Kept(s, n, keep)
          BY <4>3 DEF s, Kept
        <5>3. Kept(t, n + 1, keep)
          BY <5>1, <5>2, StoreNext
        <5> QED
          BY <5>3 DEF t, Kept
      <4>5. (1..(n + 1)) \cap keep = {k \in 1..(n + 1) : ~message'[c].reports[k].empty}
        BY <1>1 DEF keep
      <4> QED
        BY SMTT(30), <1>4, <4>1, <4>4, <4>5 DEF StoredUpTo
    <3>8. ReportOf(c)'
      <4>1. server_pc'[c] = "reports" /\ response'[c] # "success" /\ message'[c] = message[c]
        BY <1>1, <1>3, <2>1, <3>1
      <4> QED
        BY <1>3, <1>6, <3>3, <3>7, <4>1 DEF ReportOf, Handled
    <3> QED
      BY <3>5, <3>6, <3>8
  <2> QED
    BY <2>2, <2>3
<1> QED
  BY <1>1, <1>a, <1>7, <1>8

LEMMA ReportsInit == ServerInit => ReportsInv
<1> SUFFICES ASSUME ServerInit PROVE ReportsInv
  OBVIOUS
<1>1. stored \in [Conns -> Seq(Nat)] /\ received \in [Conns -> Nat]
  BY DEF ServerInit
<1>2. ASSUME NEW c \in Conns PROVE ReportOf(c)
  BY DEF ServerInit, ReportOf, Handled
<1> QED
  BY <1>1, <1>2 DEF ReportsInv

\* What a step that is about one connection has to keep.
LEMMA OneConnection ==
    ASSUME ReportsInv, NEW c \in Conns, stored' \in [Conns -> Seq(Nat)],
           received' \in [Conns -> Nat], ReportOf(c)',
           \A d \in Conns : d # c => LeftAlone(d)
    PROVE  ReportsInv'
BY LeftAloneKeeps DEF ReportsInv

\* Sending and receiving.
LEMMA ListenStores ==
    ASSUME AdmitInv, ReportsInv, NEW c \in Conns,
           (\E m \in Messages : SendMessageToServer(c, m)) \/ Listen(c)
    PROVE  ReportsInv'
<1> USE DEF Goto
<1>0. ReportOf(c)
  BY DEF ReportsInv
<1>1. CASE \E m \in Messages : SendMessageToServer(c, m)
  <2>1. PICK m \in Messages : SendMessageToServer(c, m)
    BY <1>1
  <2>2. UNCHANGED <<received, bytes_read, response, stored, crashed>>
    BY <2>1 DEF SendMessageToServer
  <2>3. server_pc[c] = "new" /\ server_pc'[c] \in {"lost", "sent"}
    BY <2>1 DEF SendMessageToServer, AdmitInv, ServerTypes
  <2>4. ReportOf(c)'
    BY <1>0, <2>2, <2>3 DEF ReportOf, Handled
  <2>5. \A d \in Conns : d # c => LeftAlone(d)
    BY SMTT(30), <2>1, <2>2 DEF SendMessageToServer, AdmitInv, ServerTypes, LeftAlone
  <2> QED
    BY <2>2, <2>4, <2>5, OneConnection DEF ReportsInv
<1>2. CASE Listen(c)
  <2>1. message[c] \in Messages /\ server_pc[c] = "sent"
    BY <1>2 DEF Listen, AdmitInv, Sent
  <2>2. Available(c) \in Nat
    BY SMTT(30), <2>1, MessagesAssumption DEF Available, Size, UNITS
  <2>3. PICK units \in 0..Available(c) :
            /\ received' = [received EXCEPT ![c] = units]
            /\ server_pc' = [server_pc EXCEPT ![c] = IF units = 0 THEN "dropped" ELSE "dispatch"]
    BY <1>2 DEF Listen
  <2>4. received' \in [Conns -> Nat] /\ \A d \in Conns : d # c => received'[d] = received[d]
    BY SMTT(30), <2>2, <2>3 DEF ReportsInv
  <2>5. UNCHANGED <<message, bytes_read, response, stored, crashed>>
    BY <1>2 DEF Listen
  <2>6. server_pc'[c] \in {"dropped", "dispatch"}
    BY <2>3 DEF AdmitInv, ServerTypes
  <2>7. ReportOf(c)'
    BY <1>0, <2>1, <2>5, <2>6 DEF ReportOf, Handled
  <2>8. \A d \in Conns : d # c => LeftAlone(d)
    BY <2>3, <2>4, <2>5 DEF AdmitInv, ServerTypes, LeftAlone
  <2> QED
    BY <2>4, <2>5, <2>7, <2>8, OneConnection DEF ReportsInv
<1> QED
  BY <1>1, <1>2

\* The loop is entered with nothing read and nothing stored.
LEMMA DispatchStores ==
    ASSUME AdmitInv, ReportsInv, NEW c \in Conns, DispatchMessage(c)
    PROVE  ReportsInv'
<1>1. /\ ReportOf(c) /\ server_pc[c] = "dispatch" /\ message[c] \in Messages
      /\ UNCHANGED <<message, received, bytes_read, response, stored, crashed>>
  BY DEF DispatchMessage, ReportsInv, AdmitInv, Sent
<1>2. bytes_read[c] = 0 /\ stored[c] = <<>> /\ response[c] # "success"
  BY <1>1 DEF ReportOf, Handled
<1>3. PICK stage \in {"refused", "reports", "exists", "reply"} :
          /\ server_pc' = [server_pc EXCEPT ![c] = stage]
          /\ stage = "reports" => message[c].kind = "report"
  BY <1>1, MessagesAssumption DEF DispatchMessage, Goto
<1>4. server_pc'[c] = stage
  BY <1>3 DEF AdmitInv, ServerTypes
<1>5. StoredUpTo(c, 0)'
  BY <1>1, <1>2 DEF StoredUpTo
<1>6. stage = "reports" => Len(message[c].reports) \in Nat
  BY SMTT(30), <1>1, <1>3, MessagesAssumption
<1>7. bytes_read'[c] = UNITS * 0 /\ (stage = "reports" => 0 <= Len(message'[c].reports))
  BY <1>1, <1>2, <1>6 DEF UNITS
<1>8. ReportOf(c)'
  <2>1. /\ bytes_read'[c] = 0 /\ stored'[c] = <<>> /\ response'[c] # "success"
        /\ server_pc'[c] = stage /\ message'[c] \in Messages
        /\ stage = "reports" => message'[c].kind = "report"
    BY <1>1, <1>2, <1>3, <1>4
  <2>2. CASE stage # "reports"
    BY <2>1, <2>2 DEF ReportOf
  <2>3. CASE stage = "reports"
    BY <1>5, <1>7, <2>1, <2>3 DEF ReportOf
  <2> QED
    BY <2>2, <2>3
<1>9. \A d \in Conns : d # c => LeftAlone(d)
  BY <1>1, <1>3 DEF AdmitInv, ServerTypes, LeftAlone
<1> QED
  BY <1>1, <1>8, <1>9, OneConnection DEF ReportsInv

\* The queries, SaveChanges and the answer are not about reports.
LEMMA OthersStore ==
    ASSUME AdmitInv, ReportsInv, NEW c \in Conns,
           \/ CheckIfUserExists(c) \/ CheckIfUserIsBanned(c)
           \/ CheckIfHardwareIsBanned(c) \/ CheckIfUsersHardwareExists(c)
           \/ SaveChanges(c) \/ SendResponsePacketToClient(c) \/ RelayResponseMessage(c)
    PROVE  ReportsInv'
<1> DEFINE before == {"exists", "banned", "hardware_banned", "hardware_exists", "save"}
<1>1. /\ UNCHANGED <<message, received, bytes_read, stored>> /\ (crashed => crashed')
      /\ server_pc[c] \in before \cup {"reply", "replied"}
  BY DEF CheckIfUserExists, CheckIfUserIsBanned, CheckIfHardwareIsBanned,
     CheckIfUsersHardwareExists, SaveChanges, SendResponsePacketToClient, CanReply,
     RelayResponseMessage
<1>2. PICK stage \in before \cup {"reply", "replied", "relayed"},
           r \in {response[c], "user_ban", "hardware_ban", "proceed"} :
          /\ server_pc' = [server_pc EXCEPT ![c] = stage] /\ response' = [response EXCEPT ![c] = r]
          /\ server_pc[c] \in {"reply", "replied"} => stage \in {"replied", "relayed"}
  BY DEF CheckIfUserExists, CheckIfUserIsBanned, CheckIfHardwareIsBanned,
     CheckIfUsersHardwareExists, SaveChanges, SendResponsePacketToClient, CanReply,
     RelayResponseMessage, Goto, Respond, AdmitInv, ServerTypes
<1>3. server_pc'[c] = stage /\ response'[c] = r /\ ReportOf(c)
  BY <1>2 DEF AdmitInv, ServerTypes, ReportsInv
<1>4. response[c] = "success" => server_pc[c] \in {"reply", "replied"}
  BY <1>1, <1>3 DEF ReportOf
<1>5. ReportOf(c)'
  BY <1>1, <1>2, <1>3, <1>4, MovingKeeps DEF Handled
<1>6. \A d \in Conns : d # c => LeftAlone(d)
  BY <1>1, <1>2 DEF AdmitInv, ServerTypes, LeftAlone
<1> QED
  BY <1>1, <1>5, <1>6, OneConnection DEF ReportsInv

LEMMA ReportsNext == AdmitInv /\ ReportsInv /\ [ServerNext]_server_vars => ReportsInv'
<1> SUFFICES ASSUME AdmitInv, ReportsInv, [ServerNext]_server_vars PROVE ReportsInv'
  OBVIOUS
<1>1. ASSUME NEW c \in Conns, HandleMessage(c) PROVE ReportsInv'
  BY <1>1, HandleMessageStores, OneConnection DEF ReportsInv, HandleMessage
<1>2. CASE Ban \/ UNCHANGED server_vars
  <2>1. UNCHANGED <<server_pc, message, received, bytes_read, response, stored, crashed>>
    BY <1>2 DEF Ban, server_vars
  <2>2. \A c \in Conns : LeftAlone(c)
    BY <2>1 DEF LeftAlone
  <2> QED
    BY <2>1, <2>2, LeftAloneKeeps DEF ReportsInv
<1> QED
  BY <1>1, <1>2, ListenStores, DispatchStores, OthersStore DEF ServerNext, Handler

\* However many messages are handled at once and however much of them was
\* received: a message received completely is acknowledged only when exactly
\* those of its reports that are not zero are stored, once and in order
\* (ClientReport.HandleMessage, server/Message/ClientReport.cs:81).
THEOREM StoredTheorem == ServerSpec => []AcknowledgedReportsStored
<1>1. ReportsInv => AcknowledgedReportsStored
  BY DEF ReportsInv, ReportOf, AcknowledgedReportsStored
<1> QED
  BY <1>1, AdmitInit, AdmitNext, ReportsInit, ReportsNext, PTL DEF ServerSpec

-----------------------------------------------------------------------------
(* The verification of the modules.                                        *)

\* A routine that has read the counter points to a module, or behind the last.
Pointing == {"read", "loop", "validate", "store"}

\* TypeOK, with the lower bounds that it needs to be inductive.
Types ==
    /\ TypeOK
    /\ \/ current_count >= FIRST
       \/ pc # "queue" /\ ~active /\ \A w \in WorkItems : state[w] = "none"
    /\ \A w \in WorkItems : state[w] \in Pointing => count[w] >= FIRST
    /\ \A w \in WorkItems : state[w] = "validate" => count[w] < total_count

\* Where the arrays are allocated, and that without them nothing runs.
Arrays ==
    /\ pc = "queue" => active
    /\ pc = "idle" /\ ~active => dispatcher_info = "null"
    /\ active => pc \in {"idle", "queue"} /\ dispatcher_info = "allocated"
    /\ dispatcher_info = "null" =>
           \A w \in WorkItems : state[w] # "queued" /\ state[w] \notin Running

\* Every queued work item is in a slot, and the slots still to fill are empty.
InSlots ==
    /\ \A w \in WorkItems : state[w] = "queued" => \E s \in Slots : work_items[s] = w
    /\ pc = "queue" => \A s \in Slots : s >= index => work_items[s] = NULL
    /\ \/ pc = "idle" /\ ~active
       \/ pc \in {"unload_spin", "unload_free"}
       => \A s \in Slots : work_items[s] = NULL

\* active_thread_count counts the routines between Enter and Leave.
Counted == active_thread_count = Cardinality(RunningItems)

\* Nothing before the counter, or before a routine's own position, is unclaimed.
Prefix ==
    dispatcher_info = "allocated" =>
        /\ \A m \in Modules : m < current_count => m \in validated
        /\ \A w \in WorkItems : state[w] \in Pointing =>
               \A m \in Modules : m < count[w] => m \in validated

\* A claimed module is validated, or being validated by one routine.
Claimed ==
    dispatcher_info = "allocated" =>
        /\ finished \subseteq validated
        /\ \A m \in validated \ finished :
               \E w \in WorkItems : state[w] = "validate" /\ count[w] = m
        /\ \A w \in WorkItems : state[w] = "validate" =>
               /\ count[w] \in validated \ finished
               /\ \A v \in WorkItems \ {w} : state[v] = "validate" => count[v] # count[w]

\* A sweep declared complete has claimed every module, and one about to be freed
\* has validated them.
Complete ==
    dispatcher_info = "allocated" =>
        /\ complete /\ pc \in {"idle", "queue"} => validated = Modules
        /\ pc \in {"spin", "free"} => validated = Modules
        /\ pc = "free" => \A w \in WorkItems : state[w] # "validate"

Sound == Arrays /\ InSlots /\ Counted /\ Prefix /\ Claimed /\ Complete

SweepInv == Types /\ (~early_free => Sound)
-----------------------------------------------------------------------------
\* The routines that run are finitely many and counted one by one.
LEMMA RunningCount ==
    ASSUME NEW S, S \subseteq WorkItems, NEW w
    PROVE  /\ Cardinality(S) \in Nat
           /\ Cardinality(S) = 0 => S = {}
           /\ w \notin S => Cardinality(S \cup {w}) = Cardinality(S) + 1
           /\ w \in S => Cardinality(S \ {w}) = Cardinality(S) - 1
<1>1. IsFiniteSet(S)
  BY ModuleVerificationAssumption, FS_Subset
<1> QED BY <1>1, FS_AddElement, FS_RemoveElement, FS_CardinalityType, FS_EmptySet

\* The invariant holds at the start.
LEMMA SweepInit == Init => SweepInv
<1> SUFFICES ASSUME Init PROVE SweepInv OBVIOUS
<1> USE ModuleVerificationAssumption DEF Init
<1>1. Types
  <2>1. 1 \in Slots /\ 0 \in 0..total_count
    BY DEF Slots
  <2>2. active \in BOOLEAN /\ complete \in BOOLEAN /\ early_free \in BOOLEAN
    BY Zenon
  <2>3. /\ validated \subseteq Modules /\ finished \subseteq Modules
        /\ work_items \in [Slots -> WorkItems \cup {NULL}]
        /\ state \in [WorkItems -> {"none", "queued", "done"} \cup Running]
    OBVIOUS
  <2>4. count \in [WorkItems -> 0..total_count] /\ max \in [WorkItems -> Nat]
    BY <2>1
  <2>5. TypeOK
    BY SMTT(30), <2>1, <2>2, <2>3, <2>4 DEF TypeOK
  <2> QED BY <2>5 DEF Types, Pointing
<1>2. RunningItems = {}
  BY DEF RunningItems, Running
<1>3. Counted
  BY <1>2, FS_EmptySet DEF Counted
<1>4. Arrays /\ InSlots /\ Prefix /\ Claimed /\ Complete
  BY DEF Arrays, InSlots, Prefix, Claimed, Complete, Running, Pointing
<1> QED BY <1>1, <1>3, <1>4 DEF SweepInv, Sound

\* Every step keeps the types and the lower bounds.
LEMMA TypesNext == Types /\ [Next]_vars => Types'
<1> SUFFICES ASSUME Types, [Next]_vars PROVE Types' OBVIOUS
<1> USE ModuleVerificationAssumption DEF Types, TypeOK, FIRST
<1>1. ASSUME NEW w \in WorkItems, WorkerStep(w) PROVE Types'
  <2>1. CASE Enter(w)
    BY SMTT(30), <2>1 DEF Enter, caller_vars, worker_vars, Running, Pointing
  <2>2. CASE ReadCurrentCount(w)
    BY <2>2 DEF ReadCurrentCount, context_vars, caller_vars, Running, Pointing
  <2>3. CASE ExchangeCurrentCount(w)
    BY SMTT(30), <2>3 DEF ExchangeCurrentCount, caller_vars, Running, Pointing
  <2>4. CASE Claim(w)
    <3>0. count[w] \in Modules /\ count[w] + 1 \in 0..total_count
      BY SMTT(30), <2>4 DEF Claim, InBlock, Modules, Pointing
    <3>1. CASE count[w] \notin validated
      BY <2>4, <3>0, <3>1 DEF Claim, InBlock, caller_vars, Running, Pointing
    <3>2. CASE count[w] \in validated
      BY SMTT(30), <2>4, <3>0, <3>2 DEF Claim, caller_vars, Running, Pointing
    <3> QED BY <3>1, <3>2
  <2>5. CASE ValidateSystemModule(w)
    <3>1. count[w] \in Modules /\ count[w] + 1 \in 0..total_count
      BY SMTT(30), <2>5 DEF ValidateSystemModule, Modules, Pointing
    <3> QED BY SMTT(30), <2>5, <3>1 DEF ValidateSystemModule, context_vars, caller_vars, Running,
                             Pointing
  <2>6. CASE AccessFreedItems(w)
    BY <2>6 DEF AccessFreedItems, context_vars, caller_vars, worker_vars
  <2>7. CASE SetComplete(w)
    BY <2>7 DEF SetComplete, caller_vars, worker_vars, Running, Pointing
  <2>8. CASE StoreCurrentCount(w)
    BY <2>8 DEF StoreCurrentCount, caller_vars, worker_vars, Running, Pointing
  <2>9. CASE Leave(w)
    BY SMTT(30), <2>9 DEF Leave, caller_vars, Running, Pointing
  <2> QED BY <1>1, <2>1, <2>2, <2>3, <2>4, <2>5, <2>6, <2>7, <2>8, <2>9 DEF WorkerStep
<1>2. CASE InitialiseContext
  <2>1. 1 \in Slots /\ 2 \in 0..total_count
    BY SMTT(30) DEF Slots
  <2>2. /\ current_count' = 2 /\ index' \in Slots
        /\ validated' \subseteq Modules /\ finished' \subseteq Modules
        /\ UNCHANGED <<work_items, early_free, count, max, state, bugcheck>>
    BY <1>2, <2>1 DEF InitialiseContext, worker_vars
  <2>3. active' \in BOOLEAN /\ complete' \in BOOLEAN
    BY <1>2, Zenon DEF InitialiseContext
  <2> QED BY SMTT(30), <1>2, <2>1, <2>2, <2>3 DEF InitialiseContext
<1>3. ASSUME NEW running, FreeWorkItems(running)
      PROVE  /\ work_items' \in [Slots -> WorkItems \cup {NULL}]
             /\ state' \in [WorkItems -> {"none", "queued", "done"} \cup Running]
             /\ early_free' \in BOOLEAN
             /\ bugcheck' \in {"no", "work_item", "dispatcher_info"}
             /\ \A w \in WorkItems : state[w] = "none" => state'[w] = "none"
             /\ \A w \in WorkItems : state'[w] \in Pointing => state'[w] = state[w]
  BY <1>3 DEF FreeWorkItems, Pointing
<1>4. CASE ContinueSweep
  <2>1. 1 \in Slots /\ current_count >= FIRST
    BY SMTT(30), <1>4 DEF ContinueSweep, Slots
  <2> QED BY <1>3, <1>4, <2>1 DEF ContinueSweep, context_vars, worker_vars, Pointing
<1>5. CASE QueueWorkItem
  <2>1. index' \in Slots
    BY SMTT(30), <1>5 DEF QueueWorkItem, NextSlot, Slots
  <2>2. current_count >= FIRST /\ pc' \in {"idle", "queue"}
    BY <1>5 DEF QueueWorkItem, NextSlot
  <2> QED BY <1>5, <2>1, <2>2 DEF QueueWorkItem, context_vars, worker_vars, Pointing
<1>6. CASE SkipWorkItem
  BY SMTT(30), <1>6 DEF SkipWorkItem, NextSlot, context_vars, worker_vars, Slots
<1>7. CASE CompleteSweep
  BY <1>7 DEF CompleteSweep, worker_vars
<1>8. CASE CleanupOnUnload
  BY <1>3, <1>8 DEF CleanupOnUnload, worker_vars, Pointing
<1>9. CASE SpinOnThreadCount
  BY <1>9 DEF SpinOnThreadCount, context_vars, worker_vars
<1>10. CASE FreeModuleVerificationItems
  BY <1>3, <1>10 DEF FreeModuleVerificationItems, worker_vars, Pointing
<1>11. CASE FreeItemsOnUnload
  BY <1>11 DEF FreeItemsOnUnload, worker_vars
<1>12. CASE UNCHANGED vars
  BY <1>12 DEF vars, context_vars, caller_vars, worker_vars
<1> QED BY <1>1, <1>2, <1>4, <1>5, <1>6, <1>7, <1>8, <1>9, <1>10, <1>11, <1>12
        DEF Next, CallerStep

\* Every step of a routine keeps what holds until something is freed too early.
LEMMA WorkerSound ==
    ASSUME Types, Sound, NEW w \in WorkItems, WorkerStep(w), ~early_free
    PROVE  Sound' /\ ~early_free'
<1> USE ModuleVerificationAssumption DEF Types, TypeOK, Sound
<1>0. RunningItems \subseteq WorkItems /\ Cardinality(RunningItems) \in Nat
  BY RunningCount DEF RunningItems
<1>1. CASE Enter(w)
  <2>1. /\ state[w] = "queued" /\ state' = [state EXCEPT ![w] = "entered"]
        /\ active_thread_count' = active_thread_count + 1
        /\ UNCHANGED <<active, complete, current_count, dispatcher_info, validated,
                       work_items, pc, index, early_free, count, max, finished>>
    BY <1>1 DEF Enter, caller_vars, worker_vars
  <2>2. w \notin RunningItems /\ RunningItems' = RunningItems \cup {w}
    BY <2>1 DEF RunningItems, Running
  <2>3. Counted'
    BY <1>0, <2>1, <2>2, RunningCount DEF Counted
  <2>4. Arrays' /\ InSlots'
    BY <2>1 DEF Arrays, InSlots, Running
  <2>5. Prefix' /\ Claimed' /\ Complete'
    BY <2>1 DEF Prefix, Claimed, Complete, Pointing
  <2> QED BY <2>1, <2>3, <2>4, <2>5
<1>2. CASE Leave(w)
  <2>1. /\ state[w] = "leaving" /\ active_thread_count' = active_thread_count - 1
        /\ state' = [state EXCEPT ![w] =
                        IF \E s \in Slots : work_items[s] = w THEN "done" ELSE "none"]
        /\ count' = [count EXCEPT ![w] = 0]
        /\ UNCHANGED <<active, complete, current_count, dispatcher_info, validated,
                       work_items, pc, index, early_free, finished>>
    BY <1>2 DEF Leave, caller_vars
  <2>2. w \in RunningItems /\ RunningItems' = RunningItems \ {w}
    BY <2>1 DEF RunningItems, Running
  <2>3. Counted'
    BY <1>0, <2>1, <2>2, RunningCount DEF Counted
  <2>4. Arrays' /\ InSlots'
    BY <2>1 DEF Arrays, InSlots, Running
  <2>5. Prefix' /\ Claimed' /\ Complete'
    BY <2>1 DEF Prefix, Claimed, Complete, Pointing
  <2> QED BY <2>1, <2>3, <2>4, <2>5
<1>3. ASSUME state[w] \in Running, state'[w] \in Running,
             \A v \in WorkItems \ {w} : state'[v] = state[v],
             UNCHANGED <<active, active_thread_count, dispatcher_info, work_items,
                         pc, index>>
      PROVE  Counted' /\ Arrays' /\ InSlots'
  <2>1. RunningItems' = RunningItems
    BY <1>3 DEF RunningItems
  <2> QED BY <1>3, <2>1 DEF Counted, Arrays, InSlots, Running
<1>4. CASE ReadCurrentCount(w)
  <2>1. /\ state[w] = "entered" /\ state' = [state EXCEPT ![w] = "read"]
        /\ count' = [count EXCEPT ![w] = current_count]
        /\ UNCHANGED <<context_vars, caller_vars, finished>>
    BY <1>4 DEF ReadCurrentCount
  <2>2. Counted' /\ Arrays' /\ InSlots'
    BY <1>3, <2>1 DEF Running, context_vars, caller_vars
  <2>3. Prefix' /\ Claimed' /\ Complete'
    BY <2>1 DEF Prefix, Claimed, Complete, Pointing, context_vars, caller_vars
  <2> QED BY <2>1, <2>2, <2>3 DEF caller_vars
<1>5. CASE ExchangeCurrentCount(w)
  <2>1. /\ state[w] = "read" /\ state' = [state EXCEPT ![w] = "loop"]
        /\ count' = [count EXCEPT ![w] = current_count] /\ current_count' = count[w]
        /\ UNCHANGED <<active, complete, active_thread_count, dispatcher_info,
                       validated, work_items, pc, index, early_free, finished>>
    BY <1>5 DEF ExchangeCurrentCount, caller_vars
  <2>2. Counted' /\ Arrays' /\ InSlots'
    BY <1>3, <2>1 DEF Running
  <2>3. Prefix' /\ Claimed' /\ Complete'
    BY <2>1 DEF Prefix, Claimed, Complete, Pointing
  <2> QED BY <2>1, <2>2, <2>3
<1>6. CASE Claim(w)
  <2>0. /\ state[w] = "loop" /\ dispatcher_info = "allocated"
        /\ UNCHANGED <<active, complete, current_count, active_thread_count,
                       dispatcher_info, work_items, pc, index, early_free, finished>>
    BY <1>6 DEF Claim, caller_vars
  <2>1. count[w] \in Modules
    BY SMTT(30), <1>6 DEF Claim, InBlock, Modules, Pointing
  <2>2. CASE count[w] \notin validated
    <3>1. /\ validated' = validated \cup {count[w]} /\ count' = count
          /\ state' = [state EXCEPT ![w] = "validate"]
      BY <1>6, <2>2 DEF Claim
    <3>2. Counted' /\ Arrays' /\ InSlots'
      BY <1>3, <2>0, <3>1 DEF Running
    <3>3. Prefix'
      BY <2>0, <3>1 DEF Prefix, Pointing
    <3>4. Claimed'
      BY SMTT(30), <2>0, <2>2, <3>1 DEF Claimed
    <3>5. Complete'
      BY <2>0, <2>1, <2>2, <3>1 DEF Complete
    <3> QED BY <2>0, <3>2, <3>3, <3>4, <3>5
  <2>3. CASE count[w] \in validated
    <3>1. /\ count' = [count EXCEPT ![w] = count[w] + 1]
          /\ UNCHANGED <<validated, state>>
      BY <1>6, <2>3 DEF Claim
    <3>2. Counted' /\ Arrays' /\ InSlots'
      BY <1>3, <2>0, <3>1 DEF Running
    <3>3. Prefix'
      BY SMTT(30), <2>0, <2>3, <3>1 DEF Prefix, Pointing, Modules, FIRST
    <3>4. Claimed' /\ Complete'
      BY <2>0, <3>1 DEF Claimed, Complete
    <3> QED BY <2>0, <3>2, <3>3, <3>4
  <2> QED BY <2>2, <2>3
<1>7. CASE ValidateSystemModule(w)
  <2>1. /\ state[w] = "validate" /\ state' = [state EXCEPT ![w] = "loop"]
        /\ finished' = finished \cup {count[w]} /\ dispatcher_info = "allocated"
        /\ count' = [count EXCEPT ![w] = count[w] + 1]
        /\ UNCHANGED <<context_vars, caller_vars>>
    BY <1>7 DEF ValidateSystemModule
  <2>2. Counted' /\ Arrays' /\ InSlots'
    BY <1>3, <2>1 DEF Running, context_vars, caller_vars
  <2>3. Prefix'
    BY SMTT(30), <2>1 DEF Prefix, Claimed, Pointing, Modules, FIRST, context_vars
  <2>4. Claimed' /\ Complete'
    BY SMTT(30), <2>1 DEF Claimed, Complete, context_vars, caller_vars
  <2> QED BY <2>1, <2>2, <2>3, <2>4 DEF caller_vars
<1>8. CASE SetComplete(w)
  <2>1. /\ state[w] = "loop" /\ state' = [state EXCEPT ![w] = "store"]
        /\ complete' = IF count[w] = total_count THEN TRUE ELSE complete
        /\ UNCHANGED <<active, current_count, active_thread_count, dispatcher_info,
                       validated, caller_vars, worker_vars, finished>>
    BY <1>8 DEF SetComplete
  <2>2. Counted' /\ Arrays' /\ InSlots'
    BY <1>3, <2>1 DEF Running, caller_vars
  <2>3. Prefix' /\ Claimed'
    BY <2>1 DEF Prefix, Claimed, Pointing, worker_vars
  <2>4. count[w] = total_count /\ dispatcher_info = "allocated" => validated = Modules
    <3>1. \A m \in Modules : m < total_count
      BY SMTT(30) DEF Modules, FIRST
    <3> QED BY SMTT(30), <2>1, <3>1 DEF Prefix, Pointing
  <2>5. Complete'
    BY <2>1, <2>4 DEF Complete, caller_vars
  <2> QED BY <2>1, <2>2, <2>3, <2>5 DEF caller_vars
<1>9. CASE StoreCurrentCount(w)
  <2>1. /\ state[w] = "store" /\ state' = [state EXCEPT ![w] = "leaving"]
        /\ current_count' = count[w]
        /\ UNCHANGED <<active, complete, active_thread_count, dispatcher_info,
                       validated, caller_vars, worker_vars, finished>>
    BY <1>9 DEF StoreCurrentCount
  <2>2. Counted' /\ Arrays' /\ InSlots'
    BY <1>3, <2>1 DEF Running, caller_vars
  <2>3. Prefix' /\ Claimed' /\ Complete'
    BY <2>1 DEF Prefix, Claimed, Complete, Pointing, caller_vars, worker_vars
  <2> QED BY <2>1, <2>2, <2>3 DEF caller_vars
<1>10. CASE AccessFreedItems(w)
  BY <1>10 DEF AccessFreedItems, Arrays, Running
<1> QED BY <1>1, <1>2, <1>4, <1>5, <1>6, <1>7, <1>8, <1>9, <1>10 DEF WorkerStep

\* And so does every step of the dispatcher that frees nothing too early.
LEMMA CallerSound ==
    ASSUME Types, ~early_free => Sound, CallerStep, ~early_free'
    PROVE  Sound'
<1> USE ModuleVerificationAssumption DEF Types, TypeOK
<1>1. ASSUME NEW running, FreeWorkItems(running)
      PROVE  /\ Sound
             /\ \A s \in Slots : work_items'[s] = NULL
             /\ \A w \in WorkItems : state[w] # "queued" /\ state'[w] # "queued"
             /\ \A w \in WorkItems : state'[w] # state[w] =>
                    state[w] = "done" /\ state'[w] = "none"
             /\ running = {} /\ RunningItems' = RunningItems
  <2>1. ~early_free /\ running = {}
        /\ {w \in {work_items[s] : s \in Slots} \ {NULL} : state[w] = "queued"} = {}
    BY <1>1 DEF FreeWorkItems
  <2>2. \A w \in WorkItems : state[w] # "queued"
    BY SMTT(30), <2>1 DEF Sound, InSlots
  <2>3. /\ \A s \in Slots : work_items'[s] = NULL
        /\ \A w \in WorkItems : state'[w] # state[w] =>
               state[w] = "done" /\ state'[w] = "none"
    BY <1>1 DEF FreeWorkItems
  <2>4. RunningItems' = RunningItems
    BY <2>3 DEF RunningItems, Running
  <2> QED BY <2>1, <2>2, <2>3, <2>4
<1>2. CASE InitialiseContext
  <2>1. /\ ~early_free /\ Sound /\ pc = "idle" /\ ~active
        /\ active' /\ ~complete' /\ dispatcher_info' = "allocated" /\ validated' = {}
        /\ current_count' = FIRST /\ finished' = {} /\ active_thread_count' = 0
        /\ pc' = "queue" /\ UNCHANGED <<work_items, state, count>>
    BY <1>2 DEF InitialiseContext, worker_vars
  <2>2. \A w \in WorkItems : state[w] # "queued" /\ state[w] \notin Running
    BY <2>1 DEF Sound, Arrays
  <2>3. RunningItems' = {}
    BY <2>1, <2>2 DEF RunningItems
  <2>4. Counted'
    BY <2>1, <2>3, FS_EmptySet DEF Counted
  <2>5. Arrays' /\ InSlots'
    BY <2>1, <2>2 DEF Sound, Arrays, InSlots
  <2>6. Prefix' /\ Claimed' /\ Complete'
    BY SMTT(30), <2>1, <2>2 DEF Prefix, Claimed, Complete, Modules, FIRST, Pointing, Running
  <2> QED BY <2>4, <2>5, <2>6 DEF Sound
<1>3. CASE ContinueSweep
  <2>1. /\ FreeWorkItems({}) /\ pc = "idle" /\ active /\ pc' = "queue"
        /\ UNCHANGED <<context_vars, count, finished>>
    BY <1>3 DEF ContinueSweep, worker_vars
  <2>2. Counted' /\ Arrays' /\ InSlots'
    BY <1>1, <2>1 DEF Sound, Counted, Arrays, InSlots, Running, context_vars
  <2>3. \A w \in WorkItems : /\ state'[w] \in Pointing <=> state[w] \in Pointing
                             /\ state'[w] = "validate" <=> state[w] = "validate"
    BY <1>1, <2>1 DEF Pointing
  <2>4. Sound /\ UNCHANGED <<dispatcher_info, complete, current_count, validated, count,
                             finished>>
    BY <1>1, <2>1 DEF context_vars
  <2>5. Prefix'
    BY <2>3, <2>4 DEF Sound, Prefix
  <2>6. Claimed'
    BY <2>3, <2>4 DEF Sound, Claimed
  <2>7. Complete'
    BY <2>1, <2>3, <2>4 DEF Sound, Complete
  <2> QED BY <2>2, <2>5, <2>6, <2>7 DEF Sound
<1>4. CASE QueueWorkItem
  <2>1. PICK w \in WorkItems :
            /\ state[w] = "none" /\ state' = [state EXCEPT ![w] = "queued"]
            /\ work_items' = [work_items EXCEPT ![index] = w]
    BY <1>4 DEF QueueWorkItem
  <2>2. /\ Sound /\ pc = "queue"
        /\ UNCHANGED <<context_vars, count, finished>>
        /\ index' = IF index = VERIFICATION_THREAD_COUNT THEN 1 ELSE index + 1
        /\ pc' = IF index = VERIFICATION_THREAD_COUNT THEN "idle" ELSE "queue"
    BY <1>4 DEF QueueWorkItem, NextSlot, worker_vars
  <2>3. RunningItems' = RunningItems
    BY <2>1 DEF RunningItems, Running
  <2>4. Counted' /\ Arrays'
    BY <2>1, <2>2, <2>3 DEF Sound, Counted, Arrays, context_vars
  <2>5. InSlots'
    <3>1. active' /\ \A s \in Slots : s >= index => work_items[s] = NULL
      BY <2>2 DEF Sound, Arrays, InSlots, context_vars
    <3>2. ASSUME NEW v \in WorkItems, state'[v] = "queued"
          PROVE  \E s \in Slots : work_items'[s] = v
      <4>1. CASE v = w
        BY <2>1, <4>1
      <4>2. CASE v # w
        <5>1. PICK s \in Slots : work_items[s] = v
          BY <2>1, <2>2, <3>2, <4>2 DEF Sound, InSlots
        <5>2. s # index
          BY SMTT(30), <3>1, <5>1 DEF Slots
        <5> QED BY <2>1, <5>1, <5>2
      <4> QED BY <4>1, <4>2
    <3>3. pc' = "queue" => \A s \in Slots : s >= index' => work_items'[s] = NULL
      BY SMTT(30), <2>1, <2>2, <3>1 DEF Slots
    <3> QED BY <2>2, <3>1, <3>2, <3>3 DEF InSlots
  <2>6. Prefix' /\ Claimed' /\ Complete'
    BY <2>1, <2>2 DEF Sound, Prefix, Claimed, Complete, Pointing, context_vars
  <2> QED BY <2>4, <2>5, <2>6 DEF Sound
<1>5. CASE SkipWorkItem
  <2>1. /\ Sound /\ pc = "queue"
        /\ UNCHANGED <<context_vars, count, finished, state, work_items>>
        /\ index' = IF index = VERIFICATION_THREAD_COUNT THEN 1 ELSE index + 1
        /\ pc' = IF index = VERIFICATION_THREAD_COUNT THEN "idle" ELSE "queue"
    BY <1>5 DEF SkipWorkItem, NextSlot, worker_vars
  <2>2. Counted' /\ Arrays'
    BY <2>1 DEF Sound, Counted, RunningItems, Arrays, context_vars
  <2>3. active' /\ (pc' = "queue" => \A s \in Slots : s >= index' => s >= index)
    BY SMTT(30), <2>1 DEF Sound, Arrays, context_vars, Slots
  <2>4. InSlots'
    BY <2>1, <2>3 DEF Sound, InSlots
  <2>5. Prefix' /\ Claimed' /\ Complete'
    BY <2>1 DEF Sound, Prefix, Claimed, Complete, context_vars
  <2> QED BY <2>2, <2>4, <2>5 DEF Sound
<1>6. CASE CompleteSweep
  BY <1>6 DEF CompleteSweep, worker_vars, Sound, Counted, RunningItems, Arrays, InSlots,
              Prefix, Claimed, Complete
<1>7. CASE CleanupOnUnload
  <2>1. /\ FreeWorkItems({}) /\ ~active' /\ pc' = "unload_spin"
        /\ UNCHANGED <<current_count, active_thread_count, dispatcher_info, validated,
                       count, finished>>
    BY <1>7 DEF CleanupOnUnload, worker_vars
  <2>2. Counted' /\ Arrays' /\ InSlots'
    BY <1>1, <2>1 DEF Sound, Counted, Arrays, InSlots, Running
  <2>3. \A w \in WorkItems : /\ state'[w] \in Pointing <=> state[w] \in Pointing
                             /\ state'[w] = "validate" <=> state[w] = "validate"
    BY <1>1, <2>1 DEF Pointing
  <2>4. Sound
    BY <1>1, <2>1
  <2>5. Prefix'
    BY <2>1, <2>3, <2>4 DEF Sound, Prefix
  <2>6. Claimed'
    BY <2>1, <2>3, <2>4 DEF Sound, Claimed
  <2>7. Complete'
    BY <2>1, <2>3, <2>4 DEF Sound, Complete
  <2> QED BY <2>2, <2>5, <2>6, <2>7 DEF Sound
<1>8. CASE SpinOnThreadCount
  <2>1. /\ Sound /\ pc \in {"spin", "unload_spin"} /\ active_thread_count = 0
        /\ pc' = IF pc = "spin" THEN "free" ELSE "unload_free"
        /\ UNCHANGED <<context_vars, count, finished, state, work_items>>
    BY <1>8 DEF SpinOnThreadCount, worker_vars
  <2>2. RunningItems = {}
    BY <2>1, RunningCount DEF Sound, Counted, RunningItems
  <2>3. Counted' /\ Arrays' /\ InSlots'
    BY <2>1 DEF Sound, Counted, RunningItems, Arrays, InSlots, context_vars
  <2>4. Prefix' /\ Claimed'
    BY <2>1 DEF Sound, Prefix, Claimed, context_vars
  <2>5. Complete'
    BY <2>1, <2>2 DEF Sound, Complete, RunningItems, Running, context_vars
  <2> QED BY <2>3, <2>4, <2>5 DEF Sound
<1>9. CASE FreeModuleVerificationItems
  <2>1. /\ FreeWorkItems(RunningItems) /\ pc = "free" /\ pc' = "idle"
        /\ dispatcher_info' = "null" /\ UNCHANGED <<active, active_thread_count>>
    BY <1>9 DEF FreeModuleVerificationItems
  <2>2. RunningItems' = {}
    BY <1>1, <2>1
  <2>3. Counted' /\ Arrays' /\ InSlots'
    BY <1>1, <2>1, <2>2 DEF Sound, Counted, Arrays, InSlots, RunningItems
  <2> QED BY <2>1, <2>3 DEF Sound, Prefix, Claimed, Complete
<1>10. CASE FreeItemsOnUnload
  <2>1. /\ Sound /\ RunningItems = {} /\ pc = "unload_free" /\ pc' = "unloaded"
        /\ dispatcher_info' = "null"
        /\ UNCHANGED <<active, active_thread_count, work_items, state>>
    BY <1>10 DEF FreeItemsOnUnload
  <2>2. Counted' /\ Arrays' /\ InSlots'
    BY <2>1 DEF Sound, Counted, Arrays, InSlots, RunningItems
  <2> QED BY <2>1, <2>2 DEF Sound, Prefix, Claimed, Complete
<1> QED BY <1>2, <1>3, <1>4, <1>5, <1>6, <1>7, <1>8, <1>9, <1>10 DEF CallerStep

\* Every step keeps it.
LEMMA SweepNext == SweepInv /\ [Next]_vars => SweepInv'
<1> SUFFICES ASSUME SweepInv, [Next]_vars PROVE SweepInv' OBVIOUS
<1>1. Types /\ Types'
  BY TypesNext DEF SweepInv
<1>2. ASSUME ~early_free' PROVE Sound'
  <2>1. CASE CallerStep
    BY <1>1, <1>2, <2>1, CallerSound DEF SweepInv
  <2>2. CASE \E w \in WorkItems : WorkerStep(w)
    <3>1. PICK w \in WorkItems : WorkerStep(w)
      BY <2>2
    <3>2. ~early_free
      BY <1>2, <3>1 DEF WorkerStep, Enter, ReadCurrentCount, ExchangeCurrentCount, Claim,
         ValidateSystemModule, AccessFreedItems, SetComplete, StoreCurrentCount, Leave,
         caller_vars
    <3> QED BY <1>1, <3>1, <3>2, WorkerSound DEF SweepInv
  <2>3. CASE UNCHANGED vars
    BY <1>2, <2>3 DEF SweepInv, Sound, Counted, RunningItems, Arrays, InSlots, Prefix,
       Claimed, Complete, vars, context_vars, caller_vars, worker_vars
  <2> QED BY <2>1, <2>2, <2>3 DEF Next
<1> QED BY <1>1, <1>2 DEF SweepInv

\* In every sweep, for any number of modules and work items, no module is
\* validated twice or passed over until something is freed too early
\* (SystemModuleVerificationDispatchFunction).
THEOREM SweepInOrderTheorem == Spec => []SweepInOrder
<1>1. SweepInv => SweepInOrder
  <2> SUFFICES ASSUME SweepInv, ~early_free PROVE SweepInOrder
    BY DEF SweepInOrder, ValidatedOnce, NothingSkipped
  <2>1. ValidatedOnce
    BY DEF SweepInv, Types, TypeOK, Sound, Arrays, Claimed, ValidatedOnce, Running
  <2>2. NothingSkipped
    BY DEF SweepInv, Sound, Arrays, Prefix, NothingSkipped
  <2> QED BY <2>1, <2>2 DEF SweepInOrder
<1> QED BY <1>1, SweepInit, SweepNext, PTL DEF Spec

\* A completed sweep whose arrays are freed has validated every module
\* (SystemModuleVerificationDispatcher).
THEOREM SweepCoverageTheorem == Spec => SweepCoversEveryModule
<1>1. SweepInv /\ [Next]_vars =>
          [dispatcher_info = "allocated" /\ dispatcher_info' = "null"
              /\ pc = "free" /\ ~early_free => finished = Modules]_vars
  <2> SUFFICES ASSUME SweepInv, dispatcher_info = "allocated", pc = "free", ~early_free
               PROVE  finished = Modules
    OBVIOUS
  <2> QED BY DEF SweepInv, Sound, Claimed, Complete
<1> QED BY <1>1, SweepInit, SweepNext, PTL DEF Spec, SweepCoversEveryModule
=============================================================================
