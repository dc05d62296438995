---------------------------- MODULE StorerProofs ----------------------------
(***************************************************************************)
(* The safety properties of Storer for any number of clients and attempts. *)
(***************************************************************************)
EXTENDS Storer, TLAPS

Client(c) ==
    \/ Start(c) \/ Cancel(c) \/ Read(c) \/ ReadFails(c)
    \/ Put(c) \/ PutFails(c)
    \/ AcquireLease(c) \/ AcquireFails(c) \/ AcquireNotFound(c)
    \/ Create(c) \/ CreateFails(c)
    \/ Write(c) \/ WriteFails(c)
    \/ SetMetadata(c) \/ SetTags(c) \/ SetFails(c)
    \/ ReleaseLease(c) \/ ReleaseFails(c)

AllEtag == \A c \in Clients : style[c] = "etag"

\* Which requests a client makes, and when a blob may have to be created.
Roles ==
    /\ \A c \in Clients :
        /\ style[c] = "etag" => pc[c] \in {"idle", "read", "put"}
        /\ style[c] = "lease" => pc[c] # "put"
        /\ pc[c] # "idle" => attempt[c] \in 1..MaxAttempts
        /\ present => pc[c] \notin {"create", "again"}
    /\ present => exists
    /\ ~exists => data = 0

\* A lease belongs to a client that is still to release it, or lost an answer.
Leased ==
    \A c \in Clients : \A n \in 1..MaxAttempts : lease = <<c, n>> =>
        /\ style[c] = "lease"
        /\ troubled[c] \/ /\ n = attempt[c]
                          /\ pc[c] \in {"read", "write", "metadata", "tags",
                                        "release"}

\* What a client read still holds when its condition does, or its lease.
Fresh ==
    \A c \in Clients :
        /\ pc[c] = "put" =>
             /\ seen[c].etag # None => seen[c].etag <= etag
             /\ exists /\ seen[c].etag = etag => seen[c].data = data
             /\ seen[c].etag = None => seen[c].data = 0
        /\ pc[c] = "write" /\ Mine(c) => seen[c].data = data

\* The blob moves on from every etag that was won.
Won == \A w \in wins : w.etag < etag

Whole == AllEtag =>
    /\ lease = None
    /\ exists => meta = data /\ tags = data

Counted == present \/ AllEtag => data = updates

Inv == TypeOK /\ Roles /\ Leased /\ Fresh /\ Won /\ Whole /\ Counted /\ SingleWinner

LEMMA InvInit == Init => Inv
  <1> SUFFICES ASSUME Init PROVE Inv
    OBVIOUS
  <1>1. TypeOK
    BY StorerAssumption DEF Init, TypeOK
  <1>2. Roles /\ Leased /\ Fresh /\ Won /\ Whole /\ Counted /\ SingleWinner
    BY StorerAssumption DEF Init, Roles, Leased, Fresh, Won, Whole, Counted,
       AllEtag, SingleWinner, LeaseId
  <1> QED
    BY <1>1, <1>2 DEF Inv

LEMMA TypeStep == Inv /\ [Next]_vars => TypeOK'
  <1> SUFFICES ASSUME Inv, [Next]_vars PROVE TypeOK'
    OBVIOUS
  <1> USE StorerAssumption DEF Inv, TypeOK, Roles, LeaseId, blob, config
  <1>u. CASE UNCHANGED vars
    BY <1>u DEF vars
  <1>e. CASE Expire
    BY <1>e DEF Expire
  <1>n. ASSUME NEW c \in Clients, Client(c) PROVE TypeOK'
    <2>1. CASE Start(c)
      BY <2>1 DEF Start
    <2>2. CASE Cancel(c)
      BY <2>2 DEF Cancel
    <2>3. CASE Read(c)
      BY <2>3 DEF Read, Goto
    <2>4. CASE ReadFails(c)
      BY <2>4 DEF ReadFails, Fallback, Without, Goto
    <2>5. CASE Put(c)
      BY <2>5 DEF Put, PutContent, Replace, Conditions, Goto
    <2>6. CASE PutFails(c)
      BY <2>6 DEF PutFails, Without, Goto
    <2>7. CASE AcquireLease(c)
      BY <2>7 DEF AcquireLease, Goto
    <2>8. CASE AcquireFails(c)
      BY <2>8 DEF AcquireFails, Without, Goto
    <2>9. CASE AcquireNotFound(c)
      BY <2>9 DEF AcquireNotFound, Without, Goto
    <2>10. CASE Create(c)
      BY <2>10 DEF Create, Replace, Answered, Goto
    <2>11. CASE CreateFails(c)
      BY <2>11 DEF CreateFails, Without, Goto
    <2>12. CASE Write(c)
      BY <2>12 DEF Write, WriteAllowed, Mine, Replace, Goto
    <2>13. CASE WriteFails(c)
      BY <2>13 DEF WriteFails, Without, Goto
    <2>14. CASE SetMetadata(c)
      BY <2>14 DEF SetMetadata, Answered, Goto
    <2>15. CASE SetTags(c)
      BY <2>15 DEF SetTags, Goto
    <2>16. CASE SetFails(c)
      BY <2>16 DEF SetFails, Without, Goto
    <2>17. CASE ReleaseLease(c)
      BY <2>17 DEF ReleaseLease, Mine, Goto
    <2>18. CASE ReleaseFails(c)
      BY <2>18 DEF ReleaseFails, Goto
    <2> QED
      BY <1>n, <2>1, <2>2, <2>3, <2>4, <2>5, <2>6, <2>7, <2>8, <2>9, <2>10,
      <2>11, <2>12, <2>13, <2>14, <2>15, <2>16, <2>17, <2>18 DEF Client
  <1> QED
    BY <1>u, <1>e, <1>n DEF Next, Client

LEMMA RolesStep == Inv /\ [Next]_vars => Roles'
  <1> SUFFICES ASSUME Inv, [Next]_vars PROVE Roles'
    OBVIOUS
  <1> USE StorerAssumption DEF Inv, TypeOK, Roles, LeaseId, blob, config
  <1>u. CASE UNCHANGED vars
    BY <1>u DEF vars
  <1>e. CASE Expire
    BY <1>e DEF Expire
  <1>n. ASSUME NEW c \in Clients, Client(c) PROVE Roles'
    <2>1. CASE Start(c)
      BY <2>1 DEF Start
    <2>2. CASE Cancel(c)
      BY <2>2 DEF Cancel
    <2>3. CASE Read(c)
      BY <2>3 DEF Read, Goto
    <2>4. CASE ReadFails(c)
      BY <2>4 DEF ReadFails, Fallback, Without, Goto
    <2>5. CASE Put(c)
      BY <2>5 DEF Put, PutContent, Replace, Conditions, Goto
    <2>6. CASE PutFails(c)
      BY <2>6 DEF PutFails, Without, Goto
    <2>7. CASE AcquireLease(c)
      BY <2>7 DEF AcquireLease, Goto
    <2>8. CASE AcquireFails(c)
      BY <2>8 DEF AcquireFails, Without, Goto
    <2>9. CASE AcquireNotFound(c)
      BY <2>9 DEF AcquireNotFound, Without, Goto
    <2>10. CASE Create(c)
      BY <2>10 DEF Create, Replace, Answered, Goto
    <2>11. CASE CreateFails(c)
      BY <2>11 DEF CreateFails, Without, Goto
    <2>12. CASE Write(c)
      BY <2>12 DEF Write, WriteAllowed, Mine, Replace, Goto
    <2>13. CASE WriteFails(c)
      BY <2>13 DEF WriteFails, Without, Goto
    <2>14. CASE SetMetadata(c)
      BY <2>14 DEF SetMetadata, Answered, Goto
    <2>15. CASE SetTags(c)
      BY <2>15 DEF SetTags, Goto
    <2>16. CASE SetFails(c)
      BY <2>16 DEF SetFails, Without, Goto
    <2>17. CASE ReleaseLease(c)
      BY <2>17 DEF ReleaseLease, Mine, Goto
    <2>18. CASE ReleaseFails(c)
      BY <2>18 DEF ReleaseFails, Goto
    <2> QED
      BY <1>n, <2>1, <2>2, <2>3, <2>4, <2>5, <2>6, <2>7, <2>8, <2>9, <2>10,
      <2>11, <2>12, <2>13, <2>14, <2>15, <2>16, <2>17, <2>18 DEF Client
  <1> QED
    BY <1>u, <1>e, <1>n DEF Next, Client

LEMMA LeasedStep == Inv /\ [Next]_vars => Leased'
  <1> SUFFICES ASSUME Inv, [Next]_vars PROVE Leased'
    OBVIOUS
  <1> USE StorerAssumption DEF Inv, TypeOK, Roles, Leased, LeaseId, blob, config
  <1>u. CASE UNCHANGED vars
    BY <1>u DEF vars
  <1>e. CASE Expire
    BY <1>e DEF Expire
  <1>n. ASSUME NEW c \in Clients, Client(c) PROVE Leased'
    <2>1. CASE Start(c)
      BY <2>1 DEF Start
    <2>2. CASE Cancel(c)
      BY <2>2 DEF Cancel
    <2>3. CASE Read(c)
      BY <2>3 DEF Read, Goto
    <2>4. CASE ReadFails(c)
      BY <2>4 DEF ReadFails, Fallback, Without, Goto
    <2>5. CASE Put(c)
      BY <2>5 DEF Put, PutContent, Replace, Conditions, Goto
    <2>6. CASE PutFails(c)
      BY <2>6 DEF PutFails, Without, Goto
    <2>7. CASE AcquireLease(c)
      BY <2>7 DEF AcquireLease, Goto
    <2>8. CASE AcquireFails(c)
      BY <2>8 DEF AcquireFails, Without, Goto
    <2>9. CASE AcquireNotFound(c)
      BY <2>9 DEF AcquireNotFound, Without, Goto
    <2>10. CASE Create(c)
      BY <2>10 DEF Create, Replace, Answered, Goto
    <2>11. CASE CreateFails(c)
      BY <2>11 DEF CreateFails, Without, Goto
    <2>12. CASE Write(c)
      BY <2>12 DEF Write, WriteAllowed, Mine, Replace, Goto
    <2>13. CASE WriteFails(c)
      BY <2>13 DEF WriteFails, Without, Goto
    <2>14. CASE SetMetadata(c)
      BY <2>14 DEF SetMetadata, Answered, Goto
    <2>15. CASE SetTags(c)
      BY <2>15 DEF SetTags, Goto
    <2>16. CASE SetFails(c)
      BY <2>16 DEF SetFails, Without, Goto
    <2>17. CASE ReleaseLease(c)
      BY <2>17 DEF ReleaseLease, Mine, Goto
    <2>18. CASE ReleaseFails(c)
      BY <2>18 DEF ReleaseFails, Goto
    <2> QED
      BY <1>n, <2>1, <2>2, <2>3, <2>4, <2>5, <2>6, <2>7, <2>8, <2>9, <2>10,
      <2>11, <2>12, <2>13, <2>14, <2>15, <2>16, <2>17, <2>18 DEF Client
  <1> QED
    BY <1>u, <1>e, <1>n DEF Next, Client

LEMMA FreshStep == Inv /\ [Next]_vars => Fresh'
  <1> SUFFICES ASSUME Inv, [Next]_vars PROVE Fresh'
    OBVIOUS
  <1> USE StorerAssumption DEF Inv, TypeOK, Roles, Fresh, Mine, LeaseId, blob, config
  <1>u. CASE UNCHANGED vars
    BY <1>u DEF vars
  <1>e. CASE Expire
    BY <1>e DEF Expire
  <1>n. ASSUME NEW c \in Clients, Client(c) PROVE Fresh'
    <2>1. CASE Start(c)
      BY <2>1 DEF Start
    <2>2. CASE Cancel(c)
      BY <2>2 DEF Cancel
    <2>3. CASE Read(c)
      BY <2>3 DEF Read, Goto
    <2>4. CASE ReadFails(c)
      BY <2>4 DEF ReadFails, Fallback, Without, Goto
    <2>5. CASE Put(c)
      BY <2>5 DEF Put, PutContent, Replace, Conditions, Goto
    <2>6. CASE PutFails(c)
      BY <2>6 DEF PutFails, Without, Goto
    <2>7. CASE AcquireLease(c)
      BY <2>7 DEF AcquireLease, Goto
    <2>8. CASE AcquireFails(c)
      BY <2>8 DEF AcquireFails, Without, Goto
    <2>9. CASE AcquireNotFound(c)
      BY <2>9 DEF AcquireNotFound, Without, Goto
    <2>10. CASE Create(c)
      BY <2>10 DEF Create, Replace, Answered, Goto
    <2>11. CASE CreateFails(c)
      BY <2>11 DEF CreateFails, Without, Goto
    <2>12. CASE Write(c)
      BY <2>12 DEF Write, WriteAllowed, Mine, Replace, Goto
    <2>13. CASE WriteFails(c)
      BY <2>13 DEF WriteFails, Without, Goto
    <2>14. CASE SetMetadata(c)
      BY <2>14 DEF SetMetadata, Answered, Goto
    <2>15. CASE SetTags(c)
      BY <2>15 DEF SetTags, Goto
    <2>16. CASE SetFails(c)
      BY <2>16 DEF SetFails, Without, Goto
    <2>17. CASE ReleaseLease(c)
      <3>1. \A d \in Clients : /\ pc'[d] # "idle" => pc'[d] = pc[d]
                                 /\ seen'[d] = seen[d] /\ attempt'[d] = attempt[d]
        BY <2>17 DEF ReleaseLease, Goto
      <3>2. exists' = exists /\ data' = data /\ etag' = etag
        BY <2>17 DEF ReleaseLease
      <3>3. \A d \in Clients : pc[d] = "write" /\ lease' = <<d, attempt[d]>>
                                => lease = <<d, attempt[d]>>
        BY <2>17 DEF ReleaseLease, Mine
      <3> QED
        BY <3>1, <3>2, <3>3
    <2>18. CASE ReleaseFails(c)
      BY <2>18 DEF ReleaseFails, Goto
    <2> QED
      BY <1>n, <2>1, <2>2, <2>3, <2>4, <2>5, <2>6, <2>7, <2>8, <2>9, <2>10,
      <2>11, <2>12, <2>13, <2>14, <2>15, <2>16, <2>17, <2>18 DEF Client
  <1> QED
    BY <1>u, <1>e, <1>n DEF Next, Client

LEMMA WonStep == Inv /\ [Next]_vars => Won'
  <1> SUFFICES ASSUME Inv, [Next]_vars PROVE Won'
    OBVIOUS
  <1> USE StorerAssumption DEF Inv, TypeOK, Won, LeaseId, blob, config
  <1>u. CASE UNCHANGED vars
    BY <1>u DEF vars
  <1>e. CASE Expire
    BY <1>e DEF Expire
  <1>n. ASSUME NEW c \in Clients, Client(c) PROVE Won'
    <2>1. CASE Start(c)
      BY <2>1 DEF Start
    <2>2. CASE Cancel(c)
      BY <2>2 DEF Cancel
    <2>3. CASE Read(c)
      BY <2>3 DEF Read, Goto
    <2>4. CASE ReadFails(c)
      BY <2>4 DEF ReadFails, Fallback, Without, Goto
    <2>5. CASE Put(c)
      BY <2>5 DEF Put, PutContent, Replace, Conditions, Goto
    <2>6. CASE PutFails(c)
      BY <2>6 DEF PutFails, Without, Goto
    <2>7. CASE AcquireLease(c)
      BY <2>7 DEF AcquireLease, Goto
    <2>8. CASE AcquireFails(c)
      BY <2>8 DEF AcquireFails, Without, Goto
    <2>9. CASE AcquireNotFound(c)
      BY <2>9 DEF AcquireNotFound, Without, Goto
    <2>10. CASE Create(c)
      BY <2>10 DEF Create, Replace, Answered, Goto
    <2>11. CASE CreateFails(c)
      BY <2>11 DEF CreateFails, Without, Goto
    <2>12. CASE Write(c)
      BY <2>12 DEF Write, WriteAllowed, Mine, Replace, Goto
    <2>13. CASE WriteFails(c)
      BY <2>13 DEF WriteFails, Without, Goto
    <2>14. CASE SetMetadata(c)
      BY <2>14 DEF SetMetadata, Answered, Goto
    <2>15. CASE SetTags(c)
      BY <2>15 DEF SetTags, Goto
    <2>16. CASE SetFails(c)
      BY <2>16 DEF SetFails, Without, Goto
    <2>17. CASE ReleaseLease(c)
      BY <2>17 DEF ReleaseLease, Mine, Goto
    <2>18. CASE ReleaseFails(c)
      BY <2>18 DEF ReleaseFails, Goto
    <2> QED
      BY <1>n, <2>1, <2>2, <2>3, <2>4, <2>5, <2>6, <2>7, <2>8, <2>9, <2>10,
      <2>11, <2>12, <2>13, <2>14, <2>15, <2>16, <2>17, <2>18 DEF Client
  <1> QED
    BY <1>u, <1>e, <1>n DEF Next, Client

LEMMA WholeStep == Inv /\ [Next]_vars => Whole'
  <1> SUFFICES ASSUME Inv, [Next]_vars PROVE Whole'
    OBVIOUS
  <1> USE StorerAssumption DEF Inv, TypeOK, Roles, Whole, AllEtag, LeaseId, blob, config
  <1>u. CASE UNCHANGED vars
    BY <1>u DEF vars
  <1>e. CASE Expire
    BY <1>e DEF Expire
  <1>n. ASSUME NEW c \in Clients, Client(c) PROVE Whole'
    <2>1. CASE Start(c)
      BY <2>1 DEF Start
    <2>2. CASE Cancel(c)
      BY <2>2 DEF Cancel
    <2>3. CASE Read(c)
      BY <2>3 DEF Read, Goto
    <2>4. CASE ReadFails(c)
      BY <2>4 DEF ReadFails, Fallback, Without, Goto
    <2>5. CASE Put(c)
      BY <2>5 DEF Put, PutContent, Replace, Conditions, Goto
    <2>6. CASE PutFails(c)
      BY <2>6 DEF PutFails, Without, Goto
    <2>7. CASE AcquireLease(c)
      BY <2>7 DEF AcquireLease, Goto
    <2>8. CASE AcquireFails(c)
      BY <2>8 DEF AcquireFails, Without, Goto
    <2>9. CASE AcquireNotFound(c)
      BY <2>9 DEF AcquireNotFound, Without, Goto
    <2>10. CASE Create(c)
      BY <2>10 DEF Create, Replace, Answered, Goto
    <2>11. CASE CreateFails(c)
      BY <2>11 DEF CreateFails, Without, Goto
    <2>12. CASE Write(c)
      BY <2>12 DEF Write, WriteAllowed, Mine, Replace, Goto
    <2>13. CASE WriteFails(c)
      BY <2>13 DEF WriteFails, Without, Goto
    <2>14. CASE SetMetadata(c)
      BY <2>14 DEF SetMetadata, Answered, Goto
    <2>15. CASE SetTags(c)
      BY <2>15 DEF SetTags, Goto
    <2>16. CASE SetFails(c)
      BY <2>16 DEF SetFails, Without, Goto
    <2>17. CASE ReleaseLease(c)
      BY <2>17 DEF ReleaseLease, Mine, Goto
    <2>18. CASE ReleaseFails(c)
      BY <2>18 DEF ReleaseFails, Goto
    <2> QED
      BY <1>n, <2>1, <2>2, <2>3, <2>4, <2>5, <2>6, <2>7, <2>8, <2>9, <2>10,
      <2>11, <2>12, <2>13, <2>14, <2>15, <2>16, <2>17, <2>18 DEF Client
  <1> QED
    BY <1>u, <1>e, <1>n DEF Next, Client

LEMMA CountedStep == Inv /\ [Next]_vars => Counted'
  <1> SUFFICES ASSUME Inv, [Next]_vars PROVE Counted'
    OBVIOUS
  <1> USE StorerAssumption DEF Inv, TypeOK, Roles, Fresh, Mine, Counted, AllEtag, LeaseId, blob, config
  <1>u. CASE UNCHANGED vars
    BY <1>u DEF vars
  <1>e. CASE Expire
    BY <1>e DEF Expire
  <1>n. ASSUME NEW c \in Clients, Client(c) PROVE Counted'
    <2>1. CASE Start(c)
      BY <2>1 DEF Start
    <2>2. CASE Cancel(c)
      BY <2>2 DEF Cancel
    <2>3. CASE Read(c)
      BY <2>3 DEF Read, Goto
    <2>4. CASE ReadFails(c)
      BY <2>4 DEF ReadFails, Fallback, Without, Goto
    <2>5. CASE Put(c)
      BY <2>5 DEF Put, PutContent, Replace, Conditions, Goto
    <2>6. CASE PutFails(c)
      BY <2>6 DEF PutFails, Without, Goto
    <2>7. CASE AcquireLease(c)
      BY <2>7 DEF AcquireLease, Goto
    <2>8. CASE AcquireFails(c)
      BY <2>8 DEF AcquireFails, Without, Goto
    <2>9. CASE AcquireNotFound(c)
      BY <2>9 DEF AcquireNotFound, Without, Goto
    <2>10. CASE Create(c)
      BY <2>10 DEF Create, Replace, Answered, Goto
    <2>11. CASE CreateFails(c)
      BY <2>11 DEF CreateFails, Without, Goto
    <2>12. CASE Write(c)
      BY <2>12 DEF Write, WriteAllowed, Mine, Replace, Goto
    <2>13. CASE WriteFails(c)
      BY <2>13 DEF WriteFails, Without, Goto
    <2>14. CASE SetMetadata(c)
      BY <2>14 DEF SetMetadata, Answered, Goto
    <2>15. CASE SetTags(c)
      BY <2>15 DEF SetTags, Goto
    <2>16. CASE SetFails(c)
      BY <2>16 DEF SetFails, Without, Goto
    <2>17. CASE ReleaseLease(c)
      BY <2>17 DEF ReleaseLease, Mine, Goto
    <2>18. CASE ReleaseFails(c)
      BY <2>18 DEF ReleaseFails, Goto
    <2> QED
      BY <1>n, <2>1, <2>2, <2>3, <2>4, <2>5, <2>6, <2>7, <2>8, <2>9, <2>10,
      <2>11, <2>12, <2>13, <2>14, <2>15, <2>16, <2>17, <2>18 DEF Client
  <1> QED
    BY <1>u, <1>e, <1>n DEF Next, Client

LEMMA WinnerStep == Inv /\ [Next]_vars => SingleWinner'
  <1> SUFFICES ASSUME Inv, [Next]_vars PROVE SingleWinner'
    OBVIOUS
  <1> USE StorerAssumption DEF Inv, TypeOK, Won, SingleWinner, LeaseId, blob, config
  <1>u. CASE UNCHANGED vars
    BY <1>u DEF vars
  <1>e. CASE Expire
    BY <1>e DEF Expire
  <1>n. ASSUME NEW c \in Clients, Client(c) PROVE SingleWinner'
    <2>1. CASE Start(c)
      BY <2>1 DEF Start
    <2>2. CASE Cancel(c)
      BY <2>2 DEF Cancel
    <2>3. CASE Read(c)
      BY <2>3 DEF Read, Goto
    <2>4. CASE ReadFails(c)
      BY <2>4 DEF ReadFails, Fallback, Without, Goto
    <2>5. CASE Put(c)
      BY <2>5 DEF Put, PutContent, Replace, Conditions, Goto
    <2>6. CASE PutFails(c)
      BY <2>6 DEF PutFails, Without, Goto
    <2>7. CASE AcquireLease(c)
      BY <2>7 DEF AcquireLease, Goto
    <2>8. CASE AcquireFails(c)
      BY <2>8 DEF AcquireFails, Without, Goto
    <2>9. CASE AcquireNotFound(c)
      BY <2>9 DEF AcquireNotFound, Without, Goto
    <2>10. CASE Create(c)
      BY <2>10 DEF Create, Replace, Answered, Goto
    <2>11. CASE CreateFails(c)
      BY <2>11 DEF CreateFails, Without, Goto
    <2>12. CASE Write(c)
      BY <2>12 DEF Write, WriteAllowed, Mine, Replace, Goto
    <2>13. CASE WriteFails(c)
      BY <2>13 DEF WriteFails, Without, Goto
    <2>14. CASE SetMetadata(c)
      BY <2>14 DEF SetMetadata, Answered, Goto
    <2>15. CASE SetTags(c)
      BY <2>15 DEF SetTags, Goto
    <2>16. CASE SetFails(c)
      BY <2>16 DEF SetFails, Without, Goto
    <2>17. CASE ReleaseLease(c)
      BY <2>17 DEF ReleaseLease, Mine, Goto
    <2>18. CASE ReleaseFails(c)
      BY <2>18 DEF ReleaseFails, Goto
    <2> QED
      BY <1>n, <2>1, <2>2, <2>3, <2>4, <2>5, <2>6, <2>7, <2>8, <2>9, <2>10,
      <2>11, <2>12, <2>13, <2>14, <2>15, <2>16, <2>17, <2>18 DEF Client
  <1> QED
    BY <1>u, <1>e, <1>n DEF Next, Client

THEOREM Invariance == Spec => []Inv
  <1>1. Inv /\ [Next]_vars => Inv'
    BY TypeStep, RolesStep, LeasedStep, FreshStep, WonStep, WholeStep,
       CountedStep, WinnerStep DEF Inv
  <1> QED
    BY InvInit, <1>1, PTL DEF Spec

\* Every variable of the clients and the blob keeps its type (options.go:35-55).
THEOREM TypeCorrect == Spec => []TypeOK
  BY Invariance, PTL DEF Inv

\* Of any number of clients that Put on condition of one etag, at most one
\* is told it succeeded (accessconditions.go:9-45, etags_test.go:25-26).
THEOREM OneWinnerPerEtag == Spec => []SingleWinner
  BY Invariance, PTL DEF Inv

\* Updates under etags and leases are never lost, for any number of clients,
\* lost answers, expired leases and cancellations (options.go:123), where the
\* blob existed at first or all clients use etags.
THEOREM UpdatesAreKept == Spec => []NoLostUpdate
  <1>1. Inv => NoLostUpdate
    BY DEF Inv, Counted, AllEtag, NoLostUpdate
  <1> QED
    BY Invariance, <1>1, PTL

\* With Put alone, content, metadata and tags always agree (put.go:13).
THEOREM PutsAreWhole == Spec => []PutIsWhole
  <1>1. Inv => PutIsWhole
    BY DEF Inv, Whole, AllEtag, PutIsWhole
  <1> QED
    BY Invariance, <1>1, PTL

\* No lease outlives its client's call but by a lost answer (lease.go:133-136).
THEOREM LeasesAreReleased == Spec => []NoLeaseLeft
  <1>1. Inv => NoLeaseLeft
    BY DEF Inv, TypeOK, Leased, NoLeaseLeft
  <1> QED
    BY Invariance, <1>1, PTL

-----------------------------------------------------------------------------
(* The clients implement Counter *)

TryingAt == {"acquire", "create", "again", "read", "put", "write"}

\* A client goes from one request to another.
LEMMA TryingMoves ==
  ASSUME TypeOK, NEW c \in Clients, NEW to, pc' = [pc EXCEPT ![c] = to]
  PROVE  /\ to \in TryingAt => Trying' = Trying \cup {c}
         /\ to \notin TryingAt => Trying' = Trying \ {c}
         /\ c \in Trying <=> pc[c] \in TryingAt
  BY DEF Trying, TryingAt, TypeOK

\* A request without effect is none on the counter either, or gives up.
LEMMA NoEffect ==
  ASSUME TypeOK, NEW c \in Clients, NEW from, NEW to, Goto(c, from, to),
         data' = data, to \in TryingAt => from \in TryingAt
  PROVE  Number!GiveUp(c) \/ UNCHANGED Number!vars
  <1>1. pc[c] = from /\ pc' = [pc EXCEPT ![c] = to] /\ Creators' = Creators
    BY DEF Goto, config, Creators
  <1> QED
    BY <1>1, TryingMoves DEF Number!GiveUp, Number!vars

LEMMA CounterInit == Init => Number!Init
  BY DEF Init, Number!Init, Trying, Creators

\* One step of a client is one step of the counter or none.
LEMMA CounterClient ==
  ASSUME Inv, NEW c \in Clients, Client(c)
  PROVE  Number!Begin(c) \/ Number!Increment(c) \/ Number!GiveUp(c)
         \/ Number!Wipe(c) \/ UNCHANGED Number!vars
  <1> USE DEF Inv
  <1>1. CASE Start(c)
    <2>1. Creators' = Creators /\ data' = data
      BY <1>1 DEF Start, config, Creators, blob
    <2>2. pc[c] = "idle" /\ \E to \in TryingAt : pc' = [pc EXCEPT ![c] = to]
      BY <1>1 DEF Start, TryingAt
    <2>3. c \notin Trying /\ Trying' = Trying \cup {c}
      BY <2>2, TryingMoves DEF TryingAt
    <2> QED
      BY <2>1, <2>3 DEF Number!Begin
  <1>2. CASE Cancel(c)
    BY <1>2 DEF Cancel, config, blob, Trying, Creators, Number!vars
  <1>3. CASE Read(c)
    <2>1. data' = data /\ \E to \in {"put", "write"} : Goto(c, "read", to)
      BY <1>3 DEF Read, blob
    <2> QED
      BY <2>1, NoEffect DEF TryingAt
  <1>4. CASE ReadFails(c) \/ PutFails(c) \/ AcquireFails(c) \/ CreateFails(c)
            \/ WriteFails(c) \/ SetFails(c)
    <2>1. data' = data /\ \E from, to : to \in {"idle", "release"} /\ Goto(c, from, to)
      BY <1>4 DEF ReadFails, Fallback, PutFails, AcquireFails, CreateFails,
         WriteFails, SetFails, Without, blob
    <2> QED
      BY <2>1, NoEffect DEF TryingAt
  <1>5. CASE Put(c)
    <2>1. /\ pc[c] = "put" /\ pc' = [pc EXCEPT ![c] = "idle"]
          /\ data' = seen[c].data + 1 /\ Creators' = Creators
      BY <1>5 DEF Put, PutContent, Replace, Goto, config, Creators
    <2>2. seen[c].data = data
      BY <1>5, <2>1 DEF Put, Conditions, Fresh, Roles
    <2>3. c \in Trying /\ Trying' = Trying \ {c}
      BY <2>1, TryingMoves DEF TryingAt
    <2> QED
      BY <2>1, <2>2, <2>3 DEF Number!Increment
  <1>6. CASE AcquireLease(c)
    <2>1. data' = data /\ \E from \in {"acquire", "again"} :
                             \E to \in {"read", "idle"} : Goto(c, from, to)
      BY <1>6 DEF AcquireLease, blob
    <2> QED
      BY <2>1, NoEffect DEF TryingAt
  <1>7. CASE AcquireNotFound(c)
    <2>1. data' = data /\ Goto(c, "acquire", "create")
      BY <1>7 DEF AcquireNotFound, Without, blob
    <2> QED
      BY <2>1, NoEffect DEF TryingAt
  <1>8. CASE Create(c)
    <2>1. /\ pc[c] = "create" /\ data' = 0 /\ Creators' = Creators
          /\ \E to \in {"again", "idle"} : pc' = [pc EXCEPT ![c] = to]
      BY <1>8 DEF Create, Replace, Answered, Goto, config, Creators
    <2>2. c \in Creators
      BY <2>1 DEF Roles, Creators, TypeOK
    <2>3. c \in Trying /\ (Trying' = Trying \cup {c} \/ Trying' = Trying \ {c})
      BY <2>1, TryingMoves DEF TryingAt
    <2> QED
      BY <2>1, <2>2, <2>3 DEF Number!Wipe
  <1>9. CASE Write(c)
    <2>1. /\ pc[c] = "write" /\ data' = seen[c].data + 1 /\ Creators' = Creators
          /\ \E to \in {"metadata", "release"} : pc' = [pc EXCEPT ![c] = to]
      BY <1>9 DEF Write, Replace, Goto, config, Creators
    <2>2. seen[c].data = data
      BY <1>9, <2>1 DEF Write, WriteAllowed, Fresh
    <2>3. c \in Trying /\ Trying' = Trying \ {c}
      BY <2>1, TryingMoves DEF TryingAt
    <2> QED
      BY <2>1, <2>2, <2>3 DEF Number!Increment
  <1>10. CASE SetMetadata(c) \/ SetTags(c) \/ ReleaseLease(c) \/ ReleaseFails(c)
    <2>1. data' = data /\ \E from, to : to \in {"tags", "release", "idle"} /\ Goto(c, from, to)
      BY <1>10 DEF SetMetadata, Answered, SetTags, ReleaseLease, ReleaseFails, blob
    <2> QED
      BY <2>1, NoEffect DEF TryingAt
  <1> QED
    BY <1>1, <1>2, <1>3, <1>4, <1>5, <1>6, <1>7, <1>8, <1>9, <1>10 DEF Client

LEMMA CounterStep == Inv /\ [Next]_vars => [Number!Next]_(Number!vars)
  <1> SUFFICES ASSUME Inv, [Next]_vars PROVE [Number!Next]_(Number!vars)
    OBVIOUS
  <1>1. CASE Expire \/ UNCHANGED vars
    BY <1>1 DEF Expire, vars, config, blob, Trying, Creators, Number!vars
  <1>2. ASSUME NEW c \in Clients, Client(c) PROVE [Number!Next]_(Number!vars)
    BY <1>2, CounterClient DEF Number!Next
  <1> QED
    BY <1>1, <1>2 DEF Next, Client

\* Clients of any number and kind implement Counter: an update takes effect at
\* once and at most once per call, whatever requests it makes, loses or repeats,
\* and only the creation of a missing blob undoes one (options.go:123,
\* lease.go:23-47, put.go:48-73).
THEOREM StorerImplementsCounter == Spec => ImplementsCounter
  BY CounterInit, CounterStep, Invariance, PTL DEF Spec, ImplementsCounter, Number!Spec

=============================================================================
