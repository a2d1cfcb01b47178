------------------------- MODULE VolumeServer_proofs -------------------------
(***************************************************************************)
(* Proofs about VolumeServer for every set of clients and packages, every  *)
(* batch of requests and every budget.                                     *)
(***************************************************************************)
EXTENDS VolumeServer, FiniteSetTheorems, TLAPS

Answers == [asked : Packages \X Ids, from : Packages \cup {None}]

\* Type invariant.
TypeOK ==
    /\ batch \in [Clients -> Batches]
    /\ phase \in [Clients -> {"sending", "waiting", "done", "gave up"}]
    /\ sent \in [Clients -> Nat] /\ arrived \in [Clients -> Nat]
    /\ taken \in [Clients -> Nat] /\ got \in [Clients -> Nat]
    /\ readable \in [Clients -> BOOLEAN] /\ news \in [Clients -> BOOLEAN]
    /\ link \in [Clients -> {"new", "open", "closed"}]
    /\ serving \in Clients \cup {None}
    /\ answers \in [Clients -> Seq(Answers)]
    /\ volumes \in [Ids -> Packages \cup {None}]
    /\ capacity \in [Volumes -> Nat]

\* A client sends its header and its requests whole, and no more.
SendingInv ==
    \A c \in Clients :
        /\ \E k \in Nat : sent[c] = Piece * k /\ k <= Len(batch[c]) + 1
        /\ phase[c] = "sending" <=> sent[c] # Size(c)
        /\ arrived[c] <= sent[c]
        /\ got[c] <= Piece * Len(answers[c])

\* What is out of the stream for good is the whole of what the client sends, and
\* nothing more is to come.
TakenInv ==
    \A c \in Clients :
        /\ taken[c] \in {0, Size(c)}
        /\ taken[c] = Size(c) => ~readable[c] /\ sent[c] = Size(c) /\ arrived[c] = Size(c)
        /\ serving = c => taken[c] = Size(c)
        /\ link[c] = "closed" => taken[c] = Size(c)
        /\ answers[c] # <<>> => taken[c] = Size(c)

\* The answers follow the requests.
OrderInv ==
    \A c \in Clients :
        /\ Len(answers[c]) <= Len(batch[c])
        /\ \A i \in 1 .. Len(answers[c]) : answers[c][i].asked = batch[c][i]
        /\ phase[c] = "done" => Len(answers[c]) = Len(batch[c])

\* Has somebody been given the volume with this id from this package, as asked?
Given(p, i) ==
    \E d \in Clients : \E j \in 1 .. Len(answers[d]) :
        answers[d][j] = [asked |-> <<p, i>>, from |-> p]

\* A loaded volume is there and was asked for.
LoadedInv ==
    \A i \in Ids : volumes[i] # None => <<volumes[i], i>> \in Volumes /\ Given(volumes[i], i)

\* A loaded volume caches what fits into the share of today.
ShareInv ==
    \A v \in Loaded :
        LET slices == Share(Cardinality(Loaded)) \div SliceBytes[v]
        IN  slices > 0 => capacity[v] = slices

Inv ==
    /\ TypeOK
    /\ SendingInv
    /\ TakenInv
    /\ OrderInv
    /\ LoadedInv
    /\ ShareInv
    /\ AnswersComeFromThePackage

\* The length of a batch is a number, and a batch has a header.
LEMMA SizeFacts ==
    ASSUME TypeOK, NEW c \in Clients
    PROVE  /\ batch[c] \in Seq(Packages \X Ids) /\ Len(batch[c]) \in Nat
           /\ Size(c) = 2 * Len(batch[c]) + 2 /\ Size(c) \in Nat \ {0}
           /\ answers[c] \in Seq(Answers) /\ Len(answers[c]) \in Nat
           /\ Reply(c) = 2 * Len(batch[c])
<1>1. batch[c] \in Seq(Packages \X Ids)
  BY BatchesAssumption DEF TypeOK
<1>2. Len(batch[c]) \in Nat
  BY <1>1
<1>3. answers[c] \in Seq(Answers)
  BY DEF TypeOK
<1> HIDE DEF TypeOK
<1> QED
  BY <1>1, <1>2, <1>3 DEF Size, Reply, Piece

\* A function that changes at one place keeps its type.
LEMMA Updated ==
    ASSUME NEW S, NEW T, NEW f \in [S -> T], NEW x \in S, NEW y \in T
    PROVE  [f EXCEPT ![x] = y] \in [S -> T]
OBVIOUS

LEMMA InitInv == Init => Inv
<1> SUFFICES ASSUME Init PROVE Inv
  OBVIOUS
<1> USE DEF Init
<1>1. TypeOK
  BY BudgetAssumption DEF TypeOK
<1>2. SendingInv /\ TakenInv
  <2> SUFFICES ASSUME NEW c \in Clients
               PROVE  /\ \E k \in Nat : sent[c] = Piece * k /\ k <= Len(batch[c]) + 1
                      /\ arrived[c] <= sent[c] /\ got[c] <= Piece * Len(answers[c])
                      /\ taken[c] = 0 /\ Size(c) # 0 /\ serving # c /\ link[c] # "closed"
                      /\ answers[c] = <<>> /\ phase[c] = "sending"
    BY DEF SendingInv, TakenInv
  <2>1. Len(batch[c]) \in Nat /\ Size(c) # 0
    BY <1>1, SizeFacts
  <2>2. 0 = Piece * 0 /\ 0 <= Len(batch[c]) + 1
    BY <2>1 DEF Piece
  <2>3. serving # c
    BY NoneAssumption
  <2> QED
    BY <2>1, <2>2, <2>3 DEF Piece
<1>3. OrderInv
  <2> SUFFICES ASSUME NEW c \in Clients
               PROVE  /\ Len(answers[c]) = 0 /\ 0 <= Len(batch[c]) /\ phase[c] # "done"
    BY DEF OrderInv
  <2> QED
    BY <1>1, SizeFacts
<1>4. LoadedInv /\ AnswersComeFromThePackage
  BY DEF LoadedInv, AnswersComeFromThePackage
<1>5. ShareInv
  <2>1. Loaded = {}
    BY VolumesAssumption, NoneAssumption DEF Loaded
  <2> QED
    BY <2>1 DEF ShareInv
<1> QED
  BY <1>1, <1>2, <1>3, <1>4, <1>5 DEF Inv

\* Steps that leave answers, batches and volumes alone.
LEMMA VolumesUnchanged ==
    ASSUME LoadedInv, ShareInv, AnswersComeFromThePackage,
           UNCHANGED <<answers, volumes, capacity>>
    PROVE  LoadedInv' /\ ShareInv' /\ AnswersComeFromThePackage'
<1>1. LoadedInv'
  BY DEF LoadedInv, Given
<1>2. ShareInv'
  BY DEF ShareInv, Loaded, Share
<1>3. AnswersComeFromThePackage'
  BY DEF AnswersComeFromThePackage
<1> QED
  BY <1>1, <1>2, <1>3

\* What a client does, and the network does for it, without touching the server:
\* the conditions on what it sends are left to show.
LEMMA ClientStep ==
    ASSUME Inv, NEW c \in Clients,
           UNCHANGED <<batch, serverVars>>, TypeOK', SendingInv', TakenInv',
           phase'[c] = "done" => Len(answers[c]) = Len(batch[c]),
           \A d \in Clients \ {c} : phase'[d] = phase[d]
    PROVE  Inv'
<1> USE DEF serverVars
<1>1. OrderInv'
  BY DEF Inv, OrderInv
<1>2. LoadedInv' /\ ShareInv' /\ AnswersComeFromThePackage'
  BY VolumesUnchanged DEF Inv
<1> QED
  BY <1>1, <1>2 DEF Inv

LEMMA SendInv ==
    ASSUME Inv, NEW c \in Clients, Send(c)
    PROVE  Inv'
<1> USE DEF Send, Piece
<1>2. PICK k \in Nat : sent[c] = Piece * k /\ k <= Len(batch[c]) + 1
  BY DEF Inv, SendingInv
<1>3. /\ Len(batch[c]) \in Nat /\ Size(c) = 2 * Len(batch[c]) + 2
      /\ taken[c] \in Nat /\ arrived[c] \in Nat /\ sent[c] \in Nat
  BY SizeFacts DEF Inv, TypeOK
<1>4. sent[c] # Size(c) /\ sent[c] < Size(c)
  <2>1. sent[c] # Size(c)
    BY DEF Inv, SendingInv
  <2> QED
    BY <2>1, <1>2, <1>3
<1>5. /\ sent' = [sent EXCEPT ![c] = sent[c] + 2]
      /\ phase' = [phase EXCEPT ![c] = IF sent[c] + 2 = Size(c) THEN "waiting" ELSE "sending"]
  <2>1. sent' = [sent EXCEPT ![c] = sent[c] + 2]
    OBVIOUS
  <2>2. sent'[c] = sent[c] + 2
    BY <2>1 DEF Inv, TypeOK
  <2> QED
    BY <2>1, <2>2
<1>1. TypeOK'
  <2>1. sent' \in [Clients -> Nat]
    <3>1. sent[c] + 2 \in Nat
      BY <1>3
    <3> QED
      BY <3>1, <1>5, Updated, Zenon DEF Inv, TypeOK
  <2>2. phase' \in [Clients -> {"sending", "waiting", "done", "gave up"}]
    BY <1>5 DEF Inv, TypeOK
  <2> QED
    BY <2>1, <2>2 DEF Inv, TypeOK, serverVars
<1>6. SendingInv'
  <2> SUFFICES ASSUME NEW d \in Clients
               PROVE  /\ \E l \in Nat : sent'[d] = Piece * l /\ l <= Len(batch[d]) + 1
                      /\ phase'[d] = "sending" <=> sent'[d] # Size(d)
                      /\ arrived[d] <= sent'[d] /\ got[d] <= Piece * Len(answers[d])
    BY DEF SendingInv, serverVars, Size
  <2>1. CASE d # c
    BY <2>1, <1>5 DEF Inv, SendingInv, TypeOK
  <2>2. CASE d = c
    <3>1. k + 1 \in Nat /\ sent[c] + 2 = Piece * (k + 1) /\ k + 1 <= Len(batch[c]) + 1
      BY <1>2, <1>3, <1>4
    <3>2. sent'[c] = sent[c] + 2 /\ (phase'[c] = "sending" <=> sent[c] + 2 # Size(c))
      BY <1>5 DEF Inv, TypeOK
    <3>3. arrived[c] <= sent[c] + 2
      BY <1>3 DEF Inv, SendingInv
    <3>4. got[c] <= Piece * Len(answers[c])
      BY DEF Inv, SendingInv
    <3> QED
      BY <2>2, <3>1, <3>2, <3>3, <3>4
  <2> QED
    BY <2>1, <2>2
<1>7. TakenInv'
  <2>1. taken[c] # Size(c)
    BY <1>4 DEF Inv, TakenInv
  <2> QED
    BY <2>1, <1>5 DEF Inv, TakenInv, TypeOK, serverVars, Size
<1>8. phase'[c] # "done" /\ (\A d \in Clients \ {c} : phase'[d] = phase[d])
  BY <1>5 DEF Inv, TypeOK
<1> QED
  BY <1>1, <1>6, <1>7, <1>8, ClientStep

\* Whoever has got the pieces of all answers there may be has had them all.
LEMMA Squeezed == \A g, m, n \in Nat : g >= 2 * n /\ g <= 2 * m /\ m <= n => m = n
OBVIOUS

LEMMA ReadAnswersInv ==
    ASSUME Inv, NEW c \in Clients, ReadAnswers(c) \/ GiveUp(c)
    PROVE  Inv'
<1> USE DEF ReadAnswers, GiveUp, Piece
<1>1. TypeOK'
  BY DEF Inv, TypeOK, serverVars
<1>2. /\ phase[c] = "waiting" /\ phase'[c] \in {"waiting", "done", "gave up"}
      /\ \A d \in Clients \ {c} : phase'[d] = phase[d]
  BY DEF Inv, TypeOK
<1>3. SendingInv'
  BY <1>2 DEF Inv, SendingInv, serverVars, Size
<1>4. TakenInv'
  BY DEF Inv, TakenInv, serverVars, Size
<1>5. phase'[c] = "done" => Len(answers[c]) = Len(batch[c])
  <2> SUFFICES ASSUME phase'[c] = "done" PROVE Len(answers[c]) = Len(batch[c])
    OBVIOUS
  <2>1. got[c] >= Reply(c)
    <3>1. ~GiveUp(c)
      BY DEF Inv, TypeOK
    <3>2. phase'[c] = IF ReadsAll(c) THEN "done" ELSE "waiting"
      BY <3>1 DEF Inv, TypeOK
    <3> QED
      BY <3>2 DEF ReadsAll
  <2>2. got[c] <= 2 * Len(answers[c]) /\ Len(answers[c]) <= Len(batch[c]) /\ got[c] \in Nat
    BY DEF Inv, SendingInv, OrderInv, TypeOK
  <2>3. Reply(c) = 2 * Len(batch[c]) /\ Len(batch[c]) \in Nat /\ Len(answers[c]) \in Nat
    BY SizeFacts DEF Inv
  <2> QED
    BY <2>1, <2>2, <2>3, Squeezed
<1> QED
  BY <1>1, <1>2, <1>3, <1>4, <1>5, ClientStep

LEMMA DeliverInv ==
    ASSUME Inv, NEW c \in Clients, Deliver(c)
    PROVE  Inv'
<1> USE DEF Deliver, Piece, clientVars
<1>1. PICK n \in arrived[c] + 1 .. sent[c] : arrived' = [arrived EXCEPT ![c] = n]
  OBVIOUS
<1>2. arrived[c] \in Nat /\ sent[c] \in Nat /\ n \in Nat /\ n <= sent[c] /\ arrived[c] # sent[c]
  <2>1. arrived[c] \in Nat /\ sent[c] \in Nat
    BY DEF Inv, TypeOK
  <2> QED
    BY <1>1, <2>1
<1>3. TypeOK'
  <2>1. arrived' \in [Clients -> Nat]
    BY <1>1, <1>2 DEF Inv, TypeOK
  <2>2. readable' \in [Clients -> BOOLEAN]
    BY Updated, Zenon DEF Inv, TypeOK
  <2> QED
    BY <2>1, <2>2 DEF Inv, TypeOK, serverVars
<1>4. SendingInv'
  BY <1>1, <1>2 DEF Inv, TypeOK, SendingInv, serverVars, Size
<1>5. TakenInv'
  <2>1. taken[c] # Size(c)
    BY <1>2 DEF Inv, TakenInv
  <2> QED
    BY <2>1, <1>1 DEF Inv, TakenInv, TypeOK, serverVars, Size
<1>6. phase'[c] = "done" => Len(answers[c]) = Len(batch[c])
  BY DEF Inv, OrderInv
<1> QED
  BY <1>3, <1>4, <1>5, <1>6, ClientStep

LEMMA DeliverAnswersInv ==
    ASSUME Inv, NEW c \in Clients, DeliverAnswers(c)
    PROVE  Inv'
<1> USE DEF DeliverAnswers, Piece
<1>1. PICK n \in got[c] + 1 .. Piece * Len(answers[c]) : got' = [got EXCEPT ![c] = n]
  OBVIOUS
<1>2. got[c] \in Nat /\ Len(answers[c]) \in Nat
  BY SizeFacts DEF Inv, TypeOK
<1>3. n \in Nat /\ n <= 2 * Len(answers[c])
  BY <1>1, <1>2
<1>4. TypeOK'
  BY <1>1, <1>3 DEF Inv, TypeOK, serverVars
<1>5. SendingInv'
  BY <1>1, <1>3 DEF Inv, TypeOK, SendingInv, serverVars, Size
<1>6. TakenInv'
  BY DEF Inv, TakenInv, serverVars, Size
<1>7. phase'[c] = "done" => Len(answers[c]) = Len(batch[c])
  BY DEF Inv, OrderInv
<1> QED
  BY <1>4, <1>5, <1>6, <1>7, ClientStep

LEMMA AcceptInv ==
    ASSUME Inv, NEW c \in Clients, AcceptConnection(c)
    PROVE  Inv'
<1> USE DEF AcceptConnection, clientVars
<1>1. TypeOK'
  BY DEF Inv, TypeOK
<1>2. SendingInv'
  BY DEF Inv, SendingInv, Size
<1>3. TakenInv'
  BY DEF Inv, TypeOK, TakenInv, Size
<1>4. OrderInv'
  BY DEF Inv, OrderInv
<1>5. LoadedInv' /\ ShareInv' /\ AnswersComeFromThePackage'
  BY VolumesUnchanged DEF Inv
<1> QED
  BY <1>1, <1>2, <1>3, <1>4, <1>5 DEF Inv

\* A reading that leaves the batch taken finds all of it there, and since the
\* client sends no more, nothing will arrive afterwards.
LEMMA ReadyReadInv ==
    ASSUME Inv, NEW c \in Clients, SocketReadyRead(c)
    PROVE  Inv'
<1> USE DEF SocketReadyRead, clientVars
<1>1. Size(c) \in Nat \ {0} /\ arrived[c] \in Nat /\ sent[c] \in Nat
  BY SizeFacts DEF Inv, TypeOK
<1>2. StaysTaken(c) \in {0, Size(c)} /\ (StaysTaken(c) = Size(c) => arrived[c] >= Size(c))
  BY <1>1 DEF StaysTaken
<1>3. /\ taken' = [taken EXCEPT ![c] = StaysTaken(c)]
      /\ readable' = [readable EXCEPT ![c] = FALSE]
      /\ serving' \in {c, None} /\ (serving' = c => StaysTaken(c) = Size(c) \/ c = None)
  BY <1>2 DEF Inv, TypeOK
<1>4. TypeOK'
  <2>1. taken' \in [Clients -> Nat]
    BY <1>1, <1>2, <1>3 DEF Inv, TypeOK
  <2>2. readable' \in [Clients -> BOOLEAN]
    BY Updated, Zenon DEF Inv, TypeOK
  <2>3. serving' \in Clients \cup {None}
    BY <1>3
  <2> QED
    BY <2>1, <2>2, <2>3 DEF Inv, TypeOK
<1>5. SendingInv'
  BY DEF Inv, SendingInv, Size
<1>6. StaysTaken(c) = Size(c) => arrived[c] = Size(c) /\ sent[c] = Size(c)
  <2>1. PICK k \in Nat : sent[c] = Piece * k /\ k <= Len(batch[c]) + 1
    BY DEF Inv, SendingInv
  <2>2. sent[c] <= Size(c) /\ arrived[c] <= sent[c]
    BY <2>1, SizeFacts DEF Inv, SendingInv, Piece
  <2> QED
    BY <2>2, <1>1, <1>2
<1>7. TakenInv'
  <2> SUFFICES ASSUME NEW d \in Clients
               PROVE  /\ taken'[d] \in {0, Size(d)}
                      /\ taken'[d] = Size(d) => ~readable'[d] /\ sent[d] = Size(d) /\ arrived[d] = Size(d)
                      /\ serving' = d => taken'[d] = Size(d)
                      /\ link[d] = "closed" => taken'[d] = Size(d)
                      /\ answers[d] # <<>> => taken'[d] = Size(d)
    BY DEF TakenInv, Size
  <2>1. CASE d # c
    BY <2>1, <1>3, NoneAssumption DEF Inv, TakenInv, TypeOK
  <2>2. CASE d = c
    <3>1. taken'[c] = StaysTaken(c) /\ ~readable'[c]
      BY <1>3 DEF Inv, TypeOK
    <3>2. link[c] # "closed" /\ answers[c] = <<>>
      BY <1>1 DEF Inv, TakenInv
    <3> QED
      BY <2>2, <3>1, <3>2, <1>2, <1>3, <1>6, NoneAssumption
  <2> QED
    BY <2>1, <2>2
<1>8. OrderInv'
  BY DEF Inv, OrderInv
<1>9. LoadedInv' /\ ShareInv' /\ AnswersComeFromThePackage'
  BY VolumesUnchanged DEF Inv
<1> QED
  BY <1>4, <1>5, <1>7, <1>8, <1>9 DEF Inv

LEMMA DisconnectInv ==
    ASSUME Inv, NEW c \in Clients, Disconnect(c)
    PROVE  Inv'
<1> USE DEF Disconnect, clientVars
<1>1. TypeOK'
  BY DEF Inv, TypeOK
<1>2. SendingInv'
  BY DEF Inv, SendingInv, Size
<1>3. TakenInv'
  BY NoneAssumption DEF Inv, TypeOK, TakenInv, Size
<1>4. OrderInv'
  BY DEF Inv, OrderInv
<1>5. LoadedInv' /\ ShareInv' /\ AnswersComeFromThePackage'
  BY VolumesUnchanged DEF Inv
<1> QED
  BY <1>1, <1>2, <1>3, <1>4, <1>5 DEF Inv

\* What a request is answered with.
LEMMA FindFacts ==
    ASSUME Inv, NEW v \in Packages \X Ids
    PROVE  /\ v = <<v[1], v[2]>> /\ v[1] \in Packages /\ v[2] \in Ids
           /\ Find(v) \in Packages \cup {None}
           /\ Find(v) # None => <<Find(v), v[2]>> \in Volumes
           /\ volumes[v[2]] # None => Find(v) = volumes[v[2]]
           /\ volumes[v[2]] = None => Find(v) = IF v \in Volumes THEN v[1] ELSE None
<1>1. v = <<v[1], v[2]>> /\ v[1] \in Packages /\ v[2] \in Ids
  OBVIOUS
<1>2. volumes[v[2]] \in Packages \cup {None}
  BY <1>1 DEF Inv, TypeOK
<1>3. volumes[v[2]] # None => <<volumes[v[2]], v[2]>> \in Volumes
  BY <1>1 DEF Inv, LoadedInv
<1> QED
  BY <1>1, <1>2, <1>3 DEF Find

LEMMA Appended ==
    ASSUME NEW T, NEW s \in Seq(T), NEW x \in T
    PROVE  /\ Append(s, x) # <<>> /\ Len(Append(s, x)) = Len(s) + 1
           /\ Append(s, x)[Len(s) + 1] = x
           /\ \A i \in 1 .. Len(s) + 1 - 1 : Append(s, x)[i] = s[i]
OBVIOUS

\* An answer joins those of its client; the others keep their places.
LEMMA AnswerFacts ==
    ASSUME Inv, NEW c \in Clients, NEW from \in Packages \cup {None},
           Len(answers[c]) < Len(batch[c]), Answer(c, from)
    PROVE  LET n == Len(answers[c]) + 1
               r == [asked |-> batch[c][n], from |-> from]
           IN  /\ answers' \in [Clients -> Seq(Answers)]
               /\ answers'[c] # <<>> /\ Len(answers'[c]) = n /\ n \in 1 .. Len(batch[c])
               /\ batch[c][n] \in Packages \X Ids
               /\ answers'[c][n] = r
               /\ \A i \in 1 .. n - 1 : answers'[c][i] = answers[c][i]
               /\ \A d \in Clients \ {c} : answers'[d] = answers[d]
<1> DEFINE n == Len(answers[c]) + 1
           r == [asked |-> batch[c][n], from |-> from]
<1>1. /\ answers[c] \in Seq(Answers) /\ Len(answers[c]) \in Nat
      /\ batch[c] \in Seq(Packages \X Ids) /\ Len(batch[c]) \in Nat
  BY SizeFacts DEF Inv
<1>2. n \in 1 .. Len(batch[c])
  BY <1>1
<1>3. batch[c][n] \in Packages \X Ids
  BY <1>1, <1>2
<1>4. r \in Answers
  BY <1>3 DEF Answers
<1>5. answers' = [answers EXCEPT ![c] = Append(answers[c], r)]
  BY DEF Answer
<1>6. Append(answers[c], r) \in Seq(Answers)
  BY <1>1, <1>4
<1>7. /\ answers' \in [Clients -> Seq(Answers)]
      /\ answers'[c] = Append(answers[c], r)
      /\ \A d \in Clients \ {c} : answers'[d] = answers[d]
  BY <1>5, <1>6 DEF Inv, TypeOK
<1> HIDE DEF r
<1>8. /\ Append(answers[c], r) # <<>> /\ Len(Append(answers[c], r)) = n
      /\ Append(answers[c], r)[n] = r
      /\ \A i \in 1 .. n - 1 : Append(answers[c], r)[i] = answers[c][i]
  BY <1>1, <1>4, Appended
<1> QED
  BY <1>2, <1>3, <1>7, <1>8 DEF r

\* The memory a positive number of volumes shares, and the slices that fit.
LEMMA ShareFacts ==
    ASSUME NEW n \in Nat \ {0}, NEW v \in Volumes
    PROVE  /\ Share(n) \in Nat /\ SliceBytes[v] \in Nat \ {0}
           /\ Share(n) \div SliceBytes[v] \in Nat
<1>1. Memory \in Nat /\ SliceBytes[v] \in Nat \ {0}
  BY BudgetAssumption, BytesAssumption
<1>2. Share(n) \in Nat
  BY <1>1 DEF Share
<1> HIDE DEF Share
<1> QED
  BY <1>1, <1>2

\* A non-empty set of volumes has a positive number.
LEMMA LoadedFacts ==
    ASSUME NEW V \in SUBSET Volumes, NEW v \in V
    PROVE  Cardinality(V) \in Nat \ {0}
<1>1. IsFiniteSet(V)
  BY VolumesAssumption, FS_Subset
<1> QED
  BY <1>1, FS_CardinalityType, FS_EmptySet

LEMMA GivenStays ==
    ASSUME Inv, NEW c \in Clients, NEW from \in Packages \cup {None},
           Len(answers[c]) < Len(batch[c]), Answer(c, from),
           NEW p, NEW i, Given(p, i)
    PROVE  Given(p, i)'
<1>d. PICK d \in Clients : \E j \in 1 .. Len(answers[d]) :
          answers[d][j] = [asked |-> <<p, i>>, from |-> p]
  BY DEF Given
<1>1. PICK j \in 1 .. Len(answers[d]) : answers[d][j] = [asked |-> <<p, i>>, from |-> p]
  BY <1>d
<1> DEFINE n == Len(answers[c]) + 1
<1>n. Len(answers[c]) \in Nat /\ n \in Nat
  BY SizeFacts DEF Inv
<1> HIDE DEF n
<1>2. /\ Len(answers'[c]) = n
      /\ \A k \in 1 .. n - 1 : answers'[c][k] = answers[c][k]
      /\ \A e \in Clients \ {c} : answers'[e] = answers[e]
  BY AnswerFacts DEF n
<1>3. j \in 1 .. Len(answers'[d]) /\ answers'[d][j] = answers[d][j]
  <2>1. CASE d # c
    <3>1. answers'[d] = answers[d]
      BY <2>1, <1>2
    <3> QED
      BY <3>1
  <2>2. CASE d = c
    BY <2>2, <1>2, <1>n DEF n
  <2> QED
    BY <2>1, <2>2
<1> QED
  BY <1>1, <1>3 DEF Given

\* One request is answered; the volume may be loaded for it, and then every
\* loaded volume is given its new share.
LEMMA ResolveInv ==
    ASSUME Inv, NEW c \in Clients, ResolveRequest(c)
    PROVE  Inv'
<1> DEFINE n == Len(answers[c]) + 1
           v == batch[c][n]
           New == Loaded \cup {<<Find(v), v[2]>>}
           loads == volumes[v[2]] = None /\ Find(v) # None
<1>1. /\ serving = c /\ Len(answers[c]) < Len(batch[c]) /\ Answer(c, Find(v))
      /\ UNCHANGED <<batch, phase, sent, got, news, taken, link, serving, arrived, readable>>
  BY DEF ResolveRequest, clientVars
<1>2. \/ /\ loads
         /\ volumes' = [volumes EXCEPT ![v[2]] = Find(v)] /\ capacity' = Reallocated(New, v)
      \/ ~loads /\ UNCHANGED <<volumes, capacity>>
  BY DEF ResolveRequest
<1>3. v \in Packages \X Ids
  <2>1. /\ batch[c] \in Seq(Packages \X Ids) /\ Len(batch[c]) \in Nat /\ Len(answers[c]) \in Nat
    BY SizeFacts DEF Inv
  <2>2. n \in 1 .. Len(batch[c])
    BY <2>1, <1>1
  <2> QED
    BY <2>1, <2>2
<1> HIDE DEF v
<1>4. /\ v = <<v[1], v[2]>> /\ v[1] \in Packages /\ v[2] \in Ids
      /\ Find(v) \in Packages \cup {None}
      /\ Find(v) # None => <<Find(v), v[2]>> \in Volumes
      /\ volumes[v[2]] # None => Find(v) = volumes[v[2]]
      /\ volumes[v[2]] = None => Find(v) = IF v \in Volumes THEN v[1] ELSE None
  BY <1>3, FindFacts
<1>5. /\ answers' \in [Clients -> Seq(Answers)]
      /\ answers'[c] # <<>> /\ Len(answers'[c]) = n /\ n \in 1 .. Len(batch[c])
      /\ answers'[c][n] = [asked |-> v, from |-> Find(v)]
      /\ \A i \in 1 .. n - 1 : answers'[c][i] = answers[c][i]
      /\ \A d \in Clients \ {c} : answers'[d] = answers[d]
  BY <1>1, <1>4, AnswerFacts DEF v
<1>6. Len(answers[c]) \in Nat /\ got[c] \in Nat /\ Len(batch[c]) \in Nat
  BY SizeFacts DEF Inv, TypeOK
<1>7. loads => Loaded' = New
  <2> SUFFICES ASSUME loads PROVE Loaded' = New
    OBVIOUS
  <2>1. volumes' = [volumes EXCEPT ![v[2]] = Find(v)] /\ volumes \in [Ids -> Packages \cup {None}]
    BY <1>2 DEF Inv, TypeOK
  <2>2. \A w \in Volumes : w = <<w[1], w[2]>> /\ w[2] \in Ids /\ w[1] \in Packages
    BY VolumesAssumption
  <2>3. \A w \in Volumes : w \in Loaded' <=> w \in New
    <3> SUFFICES ASSUME NEW w \in Volumes
                 PROVE  volumes'[w[2]] = w[1] <=> volumes[w[2]] = w[1] \/ w = <<Find(v), v[2]>>
      BY DEF Loaded
    <3>1. CASE w[2] # v[2]
      BY <3>1, <2>1, <2>2
    <3>2. CASE w[2] = v[2]
      <4>1. volumes'[w[2]] = Find(v) /\ volumes[w[2]] = None /\ w[1] # None
        BY <3>2, <2>1, <2>2, <1>4, NoneAssumption
      <4> QED
        BY <4>1, <3>2, <2>2
    <3> QED
      BY <3>1, <3>2
  <2> QED
    BY <2>3, <1>4 DEF Loaded
<1>8. TypeOK'
  <2>1. volumes' \in [Ids -> Packages \cup {None}]
    BY <1>2, <1>4 DEF Inv, TypeOK
  <2>2. capacity' \in [Volumes -> Nat]
    <3>1. CASE loads
      <4>1. New \in SUBSET Volumes /\ <<Find(v), v[2]>> \in New
        BY <3>1, <1>4 DEF Loaded
      <4>2. Cardinality(New) \in Nat \ {0}
        BY <4>1, LoadedFacts
      <4>3. \A w \in Volumes : Share(Cardinality(New)) \div SliceBytes[w] \in Nat /\ capacity[w] \in Nat
        BY <4>2, ShareFacts DEF Inv, TypeOK
      <4>4. capacity' = Reallocated(New, v)
        BY <3>1, <1>2
      <4> HIDE DEF New
      <4> QED
        BY <4>3, <4>4 DEF Reallocated
    <3>2. CASE ~loads
      BY <3>2, <1>2 DEF Inv, TypeOK
    <3> QED
      BY <3>1, <3>2
  <2> QED
    BY <1>1, <1>5, <2>1, <2>2 DEF Inv, TypeOK
<1>9. SendingInv'
  <2> SUFFICES ASSUME NEW d \in Clients PROVE got[d] <= Piece * Len(answers'[d])
    BY <1>1 DEF Inv, SendingInv, Size
  <2>1. CASE d # c
    BY <2>1, <1>5 DEF Inv, SendingInv
  <2>2. CASE d = c
    <3>1. got[c] <= Piece * Len(answers[c])
      BY DEF Inv, SendingInv
    <3> QED
      BY <2>2, <3>1, <1>5, <1>6 DEF Piece
  <2> QED
    BY <2>1, <2>2
<1>10. TakenInv'
  <2>1. taken[c] = Size(c)
    BY <1>1 DEF Inv, TakenInv
  <2> QED
    BY <2>1, <1>1, <1>5 DEF Inv, TakenInv, Size
<1>11. OrderInv'
  <2> SUFFICES ASSUME NEW d \in Clients
               PROVE  /\ Len(answers'[d]) <= Len(batch[d])
                      /\ \A i \in 1 .. Len(answers'[d]) : answers'[d][i].asked = batch[d][i]
                      /\ phase[d] = "done" => Len(answers'[d]) = Len(batch[d])
    BY <1>1 DEF OrderInv
  <2>1. CASE d # c
    BY <2>1, <1>5 DEF Inv, OrderInv
  <2>2. CASE d = c
    <3>1. phase[c] # "done"
      BY <1>1, <1>6 DEF Inv, OrderInv
    <3>2. Len(answers'[c]) <= Len(batch[c])
      BY <1>5, <1>6
    <3>3. ASSUME NEW i \in 1 .. n PROVE answers'[c][i].asked = batch[c][i]
      <4>1. CASE i = n
        BY <4>1, <1>5 DEF v
      <4>2. CASE i # n
        <5>1. i \in 1 .. n - 1 /\ i \in 1 .. Len(answers[c])
          BY <4>2, <1>6
        <5>2. answers[c][i].asked = batch[c][i]
          BY <5>1 DEF Inv, OrderInv
        <5> QED
          BY <5>1, <5>2, <1>5
      <4> QED
        BY <4>1, <4>2
    <3> QED
      BY <2>2, <3>1, <3>2, <3>3, <1>5
  <2> QED
    BY <2>1, <2>2
<1>12. \A p, i : Given(p, i) => Given(p, i)'
  BY <1>1, <1>4, GivenStays
<1>13. LoadedInv'
  <2> SUFFICES ASSUME NEW i \in Ids, NEW p, p = volumes'[i], p # None
               PROVE  <<p, i>> \in Volumes /\ Given(p, i)'
    BY DEF LoadedInv, Given
  <2>1. CASE p = volumes[i]
    BY <2>1, <1>12 DEF Inv, LoadedInv
  <2>2. CASE p # volumes[i]
    <3>1. loads /\ i = v[2] /\ p = Find(v)
      BY <2>2, <1>2, <1>4 DEF Inv, TypeOK
    <3>2. Find(v) = v[1] /\ v \in Volumes
      BY <3>1, <1>4
    <3>3. answers'[c][n] = [asked |-> <<p, i>>, from |-> p]
      BY <3>1, <3>2, <1>4, <1>5
    <3>4. n \in 1 .. Len(answers'[c])
      BY <1>5, <1>6
    <3> QED
      BY <3>1, <3>2, <3>3, <3>4, <1>4 DEF Given
  <2> QED
    BY <2>1, <2>2
<1>14. ShareInv'
  <2>1. CASE loads
    <3> SUFFICES ASSUME NEW w \in New,
                        Share(Cardinality(New)) \div SliceBytes[w] > 0
                 PROVE  capacity'[w] = Share(Cardinality(New)) \div SliceBytes[w]
      BY <2>1, <1>7 DEF ShareInv, Share
    <3>1. w \in Volumes
      BY <2>1, <1>4 DEF Loaded
    <3>2. capacity' = Reallocated(New, v)
      BY <2>1, <1>2
    <3> HIDE DEF New
    <3> QED
      BY <3>1, <3>2 DEF Reallocated
  <2>2. CASE ~loads
    BY <2>2, <1>2 DEF Inv, ShareInv, Loaded, Share
  <2> QED
    BY <2>1, <2>2
<1>15. AnswersComeFromThePackage'
  <2> SUFFICES ASSUME NEW d \in Clients, NEW i \in 1 .. Len(answers'[d]),
                      NEW answer, answer = answers'[d][i]
               PROVE  \/ answer.from = answer.asked[1] /\ answer.asked \in Volumes
                      \/ answer.from = None /\ answer.asked \notin Volumes
                      \/ /\ answer.from # answer.asked[1]
                         /\ <<answer.from, answer.asked[2]>> \in Volumes
                         /\ Given(answer.from, answer.asked[2])'
    BY DEF AnswersComeFromThePackage, Given
  <2>1. CASE d = c /\ i = n
    <3>1. answer.asked = v /\ answer.from = Find(v)
      BY <2>1, <1>5
    <3>2. CASE volumes[v[2]] = None
      BY <3>1, <3>2, <1>4
    <3>3. CASE volumes[v[2]] # None /\ Find(v) = v[1]
      BY <3>1, <3>3, <1>4
    <3>4. CASE volumes[v[2]] # None /\ Find(v) # v[1]
      <4>1. Given(volumes[v[2]], v[2]) /\ Find(v) = volumes[v[2]]
        BY <3>4, <1>4 DEF Inv, LoadedInv
      <4> QED
        BY <3>1, <3>4, <4>1, <1>4, <1>12
    <3> QED
      BY <3>2, <3>3, <3>4
  <2>2. CASE ~(d = c /\ i = n)
    <3>1. i \in 1 .. Len(answers[d]) /\ answer = answers[d][i]
      <4>1. CASE d # c
        BY <4>1, <1>5
      <4>2. CASE d = c
        <5>1. i \in 1 .. n - 1 /\ i \in 1 .. Len(answers[c])
          BY <4>2, <2>2, <1>5, <1>6
        <5> QED
          BY <4>2, <5>1, <1>5
      <4> QED
        BY <4>1, <4>2
    <3>2. \/ answer.from = answer.asked[1] /\ answer.asked \in Volumes
          \/ answer.from = None /\ answer.asked \notin Volumes
          \/ /\ answer.from # answer.asked[1]
             /\ <<answer.from, answer.asked[2]>> \in Volumes
             /\ Given(answer.from, answer.asked[2])
      BY <3>1 DEF Inv, AnswersComeFromThePackage, Given
    <3> QED
      BY <3>2, <1>12
  <2> QED
    BY <2>1, <2>2
<1> QED
  BY <1>8, <1>9, <1>10, <1>11, <1>13, <1>14, <1>15 DEF Inv

\* Every step keeps the invariant.
LEMMA NextInv == Inv /\ [Next]_vars => Inv'
<1> SUFFICES ASSUME Inv, [Next]_vars PROVE Inv'
  OBVIOUS
<1>1. ASSUME NEW c \in Clients, Network(c) \/ Client(c) \/ GiveUp(c) \/ Server(c)
      PROVE  Inv'
  BY <1>1, SendInv, ReadAnswersInv, DeliverInv, DeliverAnswersInv, AcceptInv, ReadyReadInv,
     ResolveInv, DisconnectInv DEF Network, Client, Server
<1>2. CASE UNCHANGED vars
  <2> USE <1>2 DEF Inv, vars, clientVars, serverVars
  <2>1. TypeOK'
    BY DEF TypeOK
  <2>2. SendingInv' /\ TakenInv' /\ OrderInv'
    BY DEF SendingInv, TakenInv, OrderInv, Size
  <2>3. LoadedInv' /\ ShareInv' /\ AnswersComeFromThePackage'
    BY VolumesUnchanged
  <2> QED
    BY <2>1, <2>2, <2>3
<1> QED
  BY <1>1, <1>2 DEF Next

\* The invariant holds of every state.
THEOREM Invariant == Spec => []Inv
BY InitInv, NextInv, PTL DEF Spec

\* Types.
THEOREM TypeCorrect == Spec => []TypeOK
BY Invariant, PTL DEF Inv

\* A batch is answered in order and only when all of it has arrived, whatever the
\* pieces it arrives in, and no client thinks itself done with fewer answers
\* (SocketReadyRead, ResolveRequests and the reading loop of the client).
THEOREM OrderedAnswers == Spec => []AnsweredAsAsked
<1>1. Inv => AnsweredAsAsked
  BY DEF Inv, OrderInv, TakenInv, AnsweredAsAsked
<1> QED
  BY <1>1, Invariant, PTL

\* The stream that is deleted with the last answer is never read again.
THEOREM DeletedStreamIsLeftAlone == Spec => []NoReadAfterDelete
<1>1. Inv => NoReadAfterDelete
  BY DEF Inv, TakenInv, NoReadAfterDelete
<1> QED
  BY <1>1, Invariant, PTL

\* What the server sends comes from the package asked for unless the id was asked
\* of another package before.
THEOREM AnswersFromThePackage == Spec => []AnswersComeFromThePackage
BY Invariant, PTL DEF Inv

\* The slices that fit into a share take no more than the share.
LEMMA Fits == \A a \in Nat, b \in Nat \ {0} : (a \div b) * b <= a
OBVIOUS

\* The slices that all loaded volumes may cache fit into the server's budget.
THEOREM BudgetIsKept == Spec => []MemoryIsShared
<1>1. Inv => MemoryIsShared
  <2> DEFINE share == Share(Cardinality(Loaded))
  <2> SUFFICES ASSUME Inv, NEW v \in Loaded, \A w \in Loaded : SliceBytes[w] <= share
               PROVE  capacity[v] * SliceBytes[v] <= share
    BY DEF MemoryIsShared
  <2>1. v \in Volumes /\ Cardinality(Loaded) \in Nat \ {0}
    BY LoadedFacts DEF Loaded
  <2>2. share \in Nat /\ SliceBytes[v] \in Nat \ {0} /\ SliceBytes[v] <= share
    BY <2>1, ShareFacts
  <2>3. share \div SliceBytes[v] > 0 => capacity[v] = share \div SliceBytes[v]
    BY DEF Inv, ShareInv
  <2> HIDE DEF share
  <2>4. share \div SliceBytes[v] > 0
    BY <2>2
  <2> QED
    BY <2>2, <2>3, <2>4, Fits
<1> QED
  BY <1>1, Invariant, PTL
==============================================================================
