---------------------------- MODULE VolumeServer ----------------------------
(***************************************************************************)
(* vc_volume_server and clients that speak its protocol                    *)
(* (apps/src/VolumeServer.cpp, VolumeClient.cpp).  A client sends a header *)
(* and a batch of requests for subvolumes over TCP, which may deliver them *)
(* in any pieces; the server, one event loop, answers the batch in order   *)
(* when all of it is there and hangs up.  The volumes asked for stay in    *)
(* memory and share the server's budget.                                   *)
(***************************************************************************)
EXTENDS Integers, Sequences, FiniteSets

CONSTANTS
    Clients, Packages, Ids,
    Volumes,           \* the pairs of a package and the id of a volume in it
    SliceBytes,        \* memory a slice of each volume takes
    Memory,            \* the server's budget
    DefaultCapacity,   \* slices a volume caches before it is told otherwise
    Batches            \* sequences of requests a client may send

ASSUME VolumesAssumption == Volumes \subseteq Packages \X Ids /\ IsFiniteSet(Volumes)
ASSUME BytesAssumption   == SliceBytes \in [Volumes -> Nat \ {0}]
ASSUME BudgetAssumption  == Memory \in Nat \ {0} /\ DefaultCapacity \in Nat \ {0}
ASSUME BatchesAssumption == Batches \subseteq Seq(Packages \X Ids)

VARIABLES
    batch,      \* what each client asks for
    phase,      \* of each client
    sent,       \* pieces each client has sent
    arrived,    \* pieces that have reached the server
    taken,      \* pieces the server has taken out of the stream for good
    readable,   \* is a readyRead of this connection due?
    link,       \* the server's end of each connection
    serving,    \* the client whose batch is being resolved
    answers,    \* what the server has written to each client
    got,        \* pieces of answers that have reached the client
    news,       \* is there something the client has not looked at?
    volumes,    \* package the loaded volume with an id comes from
    capacity    \* slices each volume may cache

clientVars == <<phase, sent, got, news>>
serverVars == <<taken, link, serving, answers, volumes, capacity>>
vars == <<batch, clientVars, serverVars, arrived, readable>>

None == "none"
ASSUME NoneAssumption == None \notin Clients \cup Packages

\* A header, a request and an answer are two pieces each: they may arrive in part.
Piece    == 2
Size(c)  == Piece * (Len(batch[c]) + 1)
Reply(c) == Piece * Len(batch[c])

Loaded == {v \in Volumes : volumes[v[2]] = v[1]}

----------------------------------------------------------------------------
(* A client.                                                                *)

\* The header and the requests are written one by one.
Send(c) ==
    /\ phase[c] = "sending"
    /\ sent' = [sent EXCEPT ![c] = @ + Piece]
    /\ phase' = [phase EXCEPT ![c] = IF sent'[c] = Size(c) THEN "waiting" ELSE "sending"]
    /\ UNCHANGED <<batch, got, news, serverVars, arrived, readable>>

\* Mutant of ReadsAll: one answer is enough.
ReadsOne(c) == got[c] >= Piece

\* Everything or nothing is read.
ReadsAll(c) == got[c] >= Reply(c)

ReadAnswers(c) ==
    /\ phase[c] = "waiting" /\ news[c]
    /\ news' = [news EXCEPT ![c] = FALSE]
    /\ phase' = [phase EXCEPT ![c] = IF ReadsAll(c) THEN "done" ELSE "waiting"]
    /\ UNCHANGED <<batch, sent, got, serverVars, arrived, readable>>

\* Thirty seconds without news.
GiveUp(c) ==
    /\ phase[c] = "waiting" /\ ~news[c]
    /\ phase' = [phase EXCEPT ![c] = "gave up"]
    /\ UNCHANGED <<batch, sent, got, news, serverVars, arrived, readable>>

----------------------------------------------------------------------------
(* The network.                                                             *)

Deliver(c) ==
    /\ \E n \in arrived[c] + 1 .. sent[c] : arrived' = [arrived EXCEPT ![c] = n]
    /\ readable' = [readable EXCEPT ![c] = TRUE]
    /\ UNCHANGED <<batch, clientVars, serverVars>>

DeliverAnswers(c) ==
    /\ phase[c] = "waiting"
    /\ \E n \in got[c] + 1 .. Piece * Len(answers[c]) : got' = [got EXCEPT ![c] = n]
    /\ news' = [news EXCEPT ![c] = TRUE]
    /\ UNCHANGED <<batch, phase, sent, serverVars, arrived, readable>>

----------------------------------------------------------------------------
(* The server.                                                              *)

AcceptConnection(c) ==
    /\ serving = None /\ link[c] = "new" /\ sent[c] > 0
    /\ link' = [link EXCEPT ![c] = "open"]
    /\ UNCHANGED <<batch, clientVars, taken, serving, answers, volumes, capacity,
                   arrived, readable>>

\* Mutants of StaysTaken: the header is not put back when requests are missing;
\* requests are resolved as soon as one of them is there.
HeaderTaken(c)  == IF arrived[c] >= Size(c) THEN Size(c)
                   ELSE IF arrived[c] >= Piece THEN Piece ELSE 0
OneIsEnough(c)  == IF arrived[c] >= 2 * Piece THEN Size(c) ELSE 0

\* What a reading leaves taken: both transactions are rolled back unless the
\* whole batch is there.
StaysTaken(c) == IF arrived[c] >= Size(c) THEN Size(c) ELSE 0

SocketReadyRead(c) ==
    /\ serving = None /\ link[c] = "open" /\ readable[c] /\ taken[c] = 0
    /\ readable' = [readable EXCEPT ![c] = FALSE]
    /\ taken' = [taken EXCEPT ![c] = StaysTaken(c)]
    /\ serving' = IF taken'[c] = Size(c) THEN c ELSE None
    /\ UNCHANGED <<batch, clientVars, link, answers, volumes, capacity, arrived>>

Share(n) == Memory \div n

\* Every loaded volume is given the same share; a volume of which no slice
\* fits into it keeps what it has.
Reallocated(loaded, v) ==
    [w \in Volumes |->
        LET slices == Share(Cardinality(loaded)) \div SliceBytes[w]
        IN  IF w \in loaded /\ slices > 0 THEN slices ELSE capacity[w]]

Answer(c, from) ==
    LET request == batch[c][Len(answers[c]) + 1]
    IN  answers' = [answers EXCEPT ![c] = Append(@, [asked |-> request, from |-> from])]

\* Mutant of Find: any package that has such a volume will do.
FindAnywhere(v) ==
    LET others == {q \in Packages : <<q, v[2]>> \in Volumes}
    IN  IF others = {} THEN None ELSE CHOOSE q \in others : TRUE

\* A volume is looked for under its id alone once one with this id is loaded.
Find(v) ==
    IF volumes[v[2]] # None THEN volumes[v[2]]
    ELSE IF v \in Volumes THEN v[1] ELSE None

\* A volume found for the first time is loaded.
ResolveRequest(c) ==
    /\ serving = c /\ Len(answers[c]) < Len(batch[c])
    /\ LET v == batch[c][Len(answers[c]) + 1]
       IN  /\ Answer(c, Find(v))
           /\ \/ /\ volumes[v[2]] = None /\ Find(v) # None
                 /\ volumes' = [volumes EXCEPT ![v[2]] = Find(v)]
                 /\ capacity' = Reallocated(Loaded \cup {<<Find(v), v[2]>>}, v)
              \/ /\ volumes[v[2]] # None \/ Find(v) = None
                 /\ UNCHANGED <<volumes, capacity>>
    /\ UNCHANGED <<batch, clientVars, taken, link, serving, arrived, readable>>

\* The stream is deleted and the connection closed.
Disconnect(c) ==
    /\ serving = c /\ Len(answers[c]) = Len(batch[c])
    /\ serving' = None
    /\ link' = [link EXCEPT ![c] = "closed"]
    /\ UNCHANGED <<batch, clientVars, taken, answers, volumes, capacity, arrived, readable>>

----------------------------------------------------------------------------
Init ==
    /\ batch \in [Clients -> Batches]
    /\ phase = [c \in Clients |-> "sending"]
    /\ sent = [c \in Clients |-> 0] /\ arrived = [c \in Clients |-> 0]
    /\ taken = [c \in Clients |-> 0] /\ readable = [c \in Clients |-> FALSE]
    /\ link = [c \in Clients |-> "new"] /\ serving = None
    /\ answers = [c \in Clients |-> <<>>]
    /\ got = [c \in Clients |-> 0] /\ news = [c \in Clients |-> FALSE]
    /\ volumes = [i \in Ids |-> None]
    /\ capacity = [v \in Volumes |-> DefaultCapacity]

Network(c) == Deliver(c) \/ DeliverAnswers(c)
Client(c)  == Send(c) \/ ReadAnswers(c)
Server(c)  == AcceptConnection(c) \/ SocketReadyRead(c) \/ ResolveRequest(c) \/ Disconnect(c)

Next == \E c \in Clients : Network(c) \/ Client(c) \/ GiveUp(c) \/ Server(c)

Spec == Init /\ [][Next]_vars

\* Connections are accepted and read as the event loop comes to them.
FairSpec == /\ Spec
            /\ \A c \in Clients :
                /\ WF_vars(Deliver(c)) /\ WF_vars(DeliverAnswers(c)) /\ WF_vars(Client(c))
                /\ SF_vars(AcceptConnection(c)) /\ SF_vars(SocketReadyRead(c))
                /\ WF_vars(ResolveRequest(c)) /\ WF_vars(Disconnect(c))

----------------------------------------------------------------------------
(* Properties.                                                              *)

\* Answers are written in the order of the requests, none before the last
\* request has arrived, and a client that is done has had all of them.
AnsweredAsAsked ==
    \A c \in Clients :
        /\ answers[c] # <<>> => arrived[c] = Size(c)
        /\ Len(answers[c]) <= Len(batch[c])
        /\ \A i \in 1 .. Len(answers[c]) : answers[c][i].asked = batch[c][i]
        /\ phase[c] = "done" => Len(answers[c]) = Len(batch[c])

\* The stream deleted with the last answer is not read again: no readyRead is due
\* any more, as long as a client sends no more than it has announced.
NoReadAfterDelete ==
    \A c \in Clients : link[c] = "closed" => ~readable[c] /\ arrived[c] = sent[c]

\* An answer comes from the package asked for, unless a volume with the same id
\* of another package was asked for before; it is empty only when there is no
\* such volume.
AnswersComeFromThePackage ==
    \A c \in Clients : \A i \in 1 .. Len(answers[c]) :
        LET answer == answers[c][i]
        IN  \/ answer.from = answer.asked[1] /\ answer.asked \in Volumes
            \/ answer.from = None /\ answer.asked \notin Volumes
            \/ /\ answer.from # answer.asked[1] /\ <<answer.from, answer.asked[2]>> \in Volumes
               /\ \E d \in Clients : \E j \in 1 .. Len(answers[d]) :
                      answers[d][j] = [asked |-> <<answer.from, answer.asked[2]>>, from |-> answer.from]

\* The slices the loaded volumes may cache fit into the server's memory, as long
\* as a volume's share has room for one slice of each.
MemoryIsShared ==
    LET share == Share(Cardinality(Loaded))
    IN  (Loaded # {} /\ \A v \in Loaded : SliceBytes[v] <= share)
            => \A v \in Loaded : capacity[v] * SliceBytes[v] <= share

\* Every batch that has been sent is answered, and its client is done or has
\* given up.
EveryBatchIsAnswered ==
    \A c \in Clients :
        phase[c] = "waiting" ~> /\ Len(answers[c]) = Len(batch[c])
                                /\ phase[c] \in {"done", "gave up"}
=============================================================================
