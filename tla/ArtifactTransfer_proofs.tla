------------------------ MODULE ArtifactTransfer_proofs ------------------------
(* Proofs about ArtifactTransfer.  The inductive invariant IInv says who     *)
(* owns the connection at each point of run(), what the socket and the       *)
(* pending exchange are then, that the producer is asked once, and that what *)
(* the host wrote, and what the cleanup claims of it, stays true.  One lemma *)
(* per action shows that it is kept.                                         *)
EXTENDS ArtifactTransfer, TLAPS

(* The values of the variables. *)
Chunks == [place : Nat \X Nat, genuine : BOOLEAN]
CleanupKinds ==
  {"none", "waiting", "not-connected", "not-retained", "released",
   "pending-exchange", "unknown-retention", "release-failed"}
Cleanups == [kind : CleanupKinds, known : BOOLEAN]
Inventory == Seq(Nat \ {0})
ReplyKinds ==
  {"none", "rejected", "unreadable", "refused", "initialized", "ready",
   "failed", "chunk", "released"}
Replies == [id : Nat, kind : ReplyKinds, inventory : Inventory, chunk : Chunks]
Methods == {"initialize", "generate", "read", "release"}
Requests == [id : Nat, method : Methods, place : Nat \X Nat]
Kinds == {"unconnected", "connected", "retained", "exchanging", "releasing",
          "closed"}
Resources ==
  [kind : Kinds, known : BOOLEAN, cleanup : Cleanups]
ResultKinds == {"none", "verified", "generation-failed", "failed", "discarded"}
Results == [kind : ResultKinds, cleanup : Cleanups]

Scalars ==
  /\ at \in Points
  /\ resource \in Resources
  /\ nextId \in Nat
  /\ aborted \in BOOLEAN /\ current \in BOOLEAN
  /\ position \in Nat \X Nat
  /\ hashed \in Nat
  /\ release \in {"none", "queued", "sent", "done"}
  /\ result \in Results
  /\ reported \in Cleanups
  /\ channel \in {"none", "opening", "refused", "open", "closed"}
  /\ waiter \in Owners \cup {Nobody}
  /\ linked \in BOOLEAN
  /\ held \in {"absent", "held", "released", "dropped"}
  /\ faults \in Nat

Messages ==
  /\ manifest \in Inventory /\ produced \in Inventory
  /\ received \subseteq Chunks
  /\ answer \in [Owners -> Replies]
  /\ toHost \in Seq(Requests)
  /\ toClient \in Seq(Replies)
  /\ replied \subseteq Replies

Typed == Scalars /\ Messages

(* Who owns the connection at each point of run(). *)
Owned ==
  /\ at = "captured" => resource.kind \in {"unconnected", "closed"}
  /\ at = "connecting" => resource.kind \in {"unconnected", "closed"}
  /\ at \in {"failing", "publishing", "finished"} =>
       resource.kind \in {"closed", "releasing"}
  /\ at = "finished" => /\ resource.kind = "closed"
                        /\ result.cleanup = resource.cleanup
  /\ at # "finished" => result = NoResult
  /\ resource.kind = "unconnected" => at \in {"captured", "connecting"}
  /\ at \in {"initializing", "generating"} =>
       resource.kind \in {"connected", "exchanging", "closed"} /\ ~resource.known
  /\ resource.kind \in {"retained", "releasing"} => resource.known
  /\ resource.kind = "connected" => ~resource.known
  /\ resource.kind # "closed" => resource.cleanup = NoCleanup
  /\ resource.kind = "releasing" <=> release \in {"queued", "sent"}
  /\ (resource.kind \in {"closed", "releasing"} /\ ~aborted) =>
       at \in {"failing", "publishing", "finished"}

(* The socket at each point of run(). *)
Connection ==
  /\ at = "captured" => channel = "none"
  /\ channel = "none" => at \in {"captured", "failing", "finished"}
  /\ channel = "opening" => at = "connecting" /\ resource.kind = "unconnected"
  /\ (resource.kind = "closed" /\ at \notin {"captured", "connecting"}) =>
       channel # "open"
  /\ waiter # Nobody => channel = "open"
  /\ waiter # Nobody => answer[waiter] = NoReply
  /\ waiter = "run" => resource.kind = "exchanging"
  /\ waiter = "release" => resource.kind = "releasing" /\ release = "sent"

(* cancel() answers with the cleanup that stands. *)
Answered ==
  /\ reported # NoCleanup => /\ aborted
                             /\ resource.kind \in {"closed", "releasing"}
  /\ (resource.kind = "releasing" /\ reported # NoCleanup) => reported = Waiting
  /\ (resource.kind = "closed" /\ reported \notin {NoCleanup, Waiting, NotConnected})
       => reported = resource.cleanup
  /\ reported = NotConnected =>
       at \in {"captured", "connecting", "failing", "finished"}

(* Nothing was sent before the connection was owned. *)
NothingSent == toHost = <<>> /\ held = "absent" /\ replied = {}

Unsent ==
  /\ at \in {"captured", "connecting"} =>
       NothingSent /\ (resource.kind = "closed" => resource.cleanup = NotConnected)
  /\ NotConnected \in {resource.cleanup, reported} =>
       /\ NothingSent
       /\ at \in {"captured", "connecting", "failing", "finished"}
       /\ resource.kind = "closed"

(* The producer is asked once; what the host wrote of it stays true. *)
Generates == {n \in DOMAIN toHost : toHost[n].method = "generate"}
Outcomes == {reply \in replied : reply.kind \in {"ready", "failed"}}

AskedOnce ==
  /\ \A m, n \in Generates : m = n
  /\ Generates # {} => held = "absent" /\ Outcomes = {}
  /\ at \in {"captured", "connecting", "initializing"} =>
       held = "absent" /\ Generates = {} /\ Outcomes = {}

Reported ==
  /\ \A n \in DOMAIN toClient : toClient[n] \in replied \cup {Unreadable}
  /\ \A owner \in Owners :
       answer[owner] \in replied \cup {Unreadable, NoReply, Rejected}
  /\ \A reply \in replied :
       /\ reply.kind = "released" => held = "released"
       /\ reply.kind = "failed" => held = "absent"
       /\ reply.kind = "ready" => held # "absent" /\ reply.inventory = produced

(* What a cleanup says is true. *)
Truth ==
  /\ resource.known => held # "absent"
  /\ reported.known => held # "absent"
  /\ \A cleanup \in {resource.cleanup, reported} :
       /\ cleanup.known => held # "absent"
       /\ cleanup.kind = "released" => held = "released"
       /\ cleanup.kind = "not-retained" =>
            \E reply \in replied : reply.kind = "failed"
       /\ cleanup.kind = "not-connected" => cleanup = NotConnected

(* The files: everything before `position` was received, and what was      *)
(* hashed is genuine.                                                      *)
Places == {chunk.place : chunk \in received}
Before(place) ==
  {other \in Whole(manifest) :
     other[1] < place[1] \/ (other[1] = place[1] /\ other[2] < place[2])}

Files ==
  /\ at \in {"captured", "connecting", "initializing", "generating"} =>
       received = {} /\ hashed = 0
  /\ at \in {"receiving", "verifying", "publishing"} =>
       held # "absent" /\ manifest = produced
  /\ at = "receiving" =>
       position \in Whole(manifest) /\ Places = Before(position) /\ hashed = 0
  /\ at = "verifying" =>
       /\ Places = Whole(manifest)
       /\ hashed <= Len(manifest)
       /\ \A chunk \in received : chunk.place[1] <= hashed => chunk.genuine
  /\ at = "publishing" \/ result.kind = "verified" =>
       received = {[place |-> place, genuine |-> TRUE] : place \in Whole(produced)}
  /\ result.kind = "verified" => held = "released"

IInv ==
  /\ Scalars /\ Messages /\ Owned /\ Connection /\ Answered /\ Unsent /\ AskedOnce
  /\ Reported /\ Truth /\ Files

-----------------------------------------------------------------------------

(* The values of the model have their types. *)
LEMMA CleanupValues ==
  /\ {NoCleanup, Waiting, NotConnected, NotRetained, Released} \subseteq Cleanups
  /\ \A known \in BOOLEAN :
       {Closed("pending-exchange", known), Closed("unknown-retention", known),
        Closed("release-failed", known)} \subseteq Cleanups
  BY DEF Cleanups, CleanupKinds, NoCleanup, Waiting, NotConnected, NotRetained,
         Released, Closed

(* An owned resource has its parts. *)
LEMMA ResourceOf ==
  ASSUME NEW kind \in Kinds, NEW known \in BOOLEAN
  PROVE  /\ Resource(kind, known) \in Resources
         /\ Resource(kind, known).kind = kind
         /\ Resource(kind, known).known = known
         /\ Resource(kind, known).cleanup = NoCleanup
  BY CleanupValues DEF Resources, Resource

(* A closed resource has its parts. *)
LEMMA EndedOf ==
  ASSUME NEW cleanup \in Cleanups
  PROVE  /\ Ended(cleanup) \in Resources
         /\ Ended(cleanup).kind = "closed"
         /\ Ended(cleanup).known = cleanup.known
         /\ Ended(cleanup).cleanup = cleanup
  BY DEF Resources, Cleanups, Kinds, Ended

(* The parts of a resource have their types. *)
LEMMA ResourceParts ==
  ASSUME NEW owned \in Resources
  PROVE  /\ owned.kind \in Kinds /\ owned.known \in BOOLEAN
         /\ owned.cleanup \in Cleanups
  BY DEF Resources

(* A result has its parts. *)
LEMMA ResultOf ==
  ASSUME NEW kind \in ResultKinds, NEW cleanup \in Cleanups
  PROVE  /\ Returned(kind, cleanup) \in Results
         /\ Returned(kind, cleanup).kind = kind
         /\ Returned(kind, cleanup).cleanup = cleanup
  BY DEF Results, Returned

(* The four outcomes of a cleanup, by what is owned when it starts. *)
LeftToOwner(owned) ==
  /\ owned.kind \in {"closed", "releasing"}
  /\ resource' = owned
  /\ UNCHANGED <<release, channel, waiter, answer>>

ToRelease(owned) ==
  /\ owned.kind = "retained" /\ channel = "open"
  /\ resource' = Resource("releasing", TRUE)
  /\ release' = "queued"
  /\ UNCHANGED <<channel, waiter, answer>>

NeverOwned(owned) ==
  /\ owned.kind = "unconnected"
  /\ resource' = Ended(NotConnected)
  /\ UNCHANGED <<release, channel, waiter, answer>>

GivenUp(owned) ==
  /\ owned.kind \in {"connected", "exchanging", "retained"}
  /\ owned.kind = "retained" => channel # "open"
  /\ CloseChannel
  /\ resource' = Ended(Closed(IF owned.kind = "exchanging"
                              THEN "pending-exchange" ELSE "unknown-retention",
                              owned.known))
  /\ UNCHANGED release

(* A cleanup has one of the four outcomes. *)
LEMMA CleanupCases ==
  ASSUME NEW owned \in Resources, Cleanup(owned)
  PROVE  \/ LeftToOwner(owned) \/ ToRelease(owned)
         \/ NeverOwned(owned) \/ GivenUp(owned)
<1>1. owned.kind \in Kinds
  BY ResourceParts
<1>2. CASE owned.kind \in {"closed", "releasing"}
  BY <1>2 DEF Cleanup, LeftToOwner
<1>3. CASE owned.kind = "retained" /\ channel = "open"
  BY <1>3 DEF Cleanup, ToRelease
<1>4. CASE owned.kind = "unconnected"
  BY <1>4 DEF Cleanup, NeverOwned
<1>5. CASE /\ owned.kind \in {"connected", "exchanging", "retained"}
           /\ owned.kind = "retained" => channel # "open"
  BY <1>5 DEF Cleanup, Reason, GivenUp
<1>6. QED
  BY <1>1, <1>2, <1>3, <1>4, <1>5 DEF Kinds

(* A reply has its parts. *)
LEMMA ReplyOf ==
  ASSUME NEW id \in Nat, NEW kind \in ReplyKinds, NEW inventory \in Inventory,
         NEW chunk \in Chunks
  PROVE  /\ Reply(id, kind, inventory, chunk) \in Replies
         /\ Reply(id, kind, inventory, chunk).id = id
         /\ Reply(id, kind, inventory, chunk).kind = kind
         /\ Reply(id, kind, inventory, chunk).inventory = inventory
         /\ Reply(id, kind, inventory, chunk).chunk = chunk
  BY DEF Replies, Reply

(* The replies that no host writes. *)
LEMMA Constants ==
  /\ NoManifest \in Inventory /\ NoChunk \in Chunks
  /\ {NoReply, Rejected, Unreadable} \subseteq Replies
  /\ NoReply.kind = "none" /\ Rejected.kind = "rejected"
  /\ Unreadable.kind = "unreadable"
<1>1. NoManifest \in Inventory /\ NoChunk \in Chunks
  BY DEF NoManifest, NoChunk, Inventory, Chunks
<1>2. 0 \in Nat /\ {"none", "rejected", "unreadable"} \subseteq ReplyKinds
  BY DEF ReplyKinds
<1>3. QED
  BY <1>1, <1>2, ReplyOf DEF NoReply, Rejected, Unreadable, Plain

(* A reply without files has its parts. *)
LEMMA PlainOf ==
  ASSUME NEW id \in Nat, NEW kind \in ReplyKinds
  PROVE  /\ Plain(id, kind) \in Replies
         /\ Plain(id, kind).id = id /\ Plain(id, kind).kind = kind
  BY ReplyOf, Constants DEF Plain

(* A request has its parts. *)
LEMMA RequestOf ==
  ASSUME NEW id \in Nat, NEW method \in Methods, NEW place \in Nat \X Nat
  PROVE  /\ Request(id, method, place) \in Requests
         /\ Request(id, method, place).method = method
  BY DEF Requests, Request

(* The request that the host answers next. *)
LEMMA FirstRequest ==
  ASSUME Messages, toHost # <<>>
  PROVE  /\ Head(toHost) \in Requests /\ Head(toHost) = toHost[1]
         /\ 1 \in DOMAIN toHost
         /\ Head(toHost).id \in Nat /\ Head(toHost).method \in Methods
         /\ Head(toHost).place \in Nat \X Nat
<1>1. Head(toHost) \in Requests /\ Head(toHost) = toHost[1] /\ 1 \in DOMAIN toHost
  BY DEF Messages
<1>2. QED
  BY <1>1 DEF Requests

(* A reply of the host, whatever it is. *)
LEMMA AnswersTypes ==
  ASSUME Messages, toHost # <<>>, NEW reply \in Replies, Answers(reply),
         produced' \in Inventory
  PROVE  /\ Messages'
         /\ \A n \in DOMAIN toClient' :
              (n \in DOMAIN toClient /\ toClient'[n] = toClient[n])
              \/ toClient'[n] = reply
         /\ \A n \in DOMAIN toHost' :
              n + 1 \in DOMAIN toHost /\ toHost'[n] = toHost[n + 1]
         /\ \A n \in Generates' : n \in Nat /\ n + 1 \in Generates /\ n + 1 # 1
<1>1. /\ toClient' = Append(toClient, reply) /\ toHost' = Tail(toHost)
      /\ replied' = replied \cup {reply}
      /\ UNCHANGED <<manifest, received, answer>>
  BY DEF Answers, attemptVars
<1>2. toClient' \in Seq(Replies) /\ toHost' \in Seq(Requests)
  BY <1>1 DEF Messages
<1>3. Messages'
  BY <1>1, <1>2 DEF Messages
<1>4. \A n \in DOMAIN toClient' :
        (n \in DOMAIN toClient /\ toClient'[n] = toClient[n])
        \/ toClient'[n] = reply
  BY <1>1 DEF Messages
<1>5. \A n \in DOMAIN toHost' :
        /\ n + 1 \in DOMAIN toHost /\ toHost'[n] = toHost[n + 1]
        /\ n \in Nat /\ n >= 1
  BY <1>1 DEF Messages
<1>6. \A n \in Generates' : n \in Nat /\ n + 1 \in Generates /\ n + 1 # 1
  BY <1>5 DEF Generates
<1>7. QED
  BY <1>3, <1>4, <1>5, <1>6

(* Nobody is none of the owners. *)
LEMMA Waiters ==
  /\ Owners = {"run", "release"} /\ Nobody \notin Owners
  /\ Nobody # "run" /\ Nobody # "release"
  BY DEF Owners, Nobody

(* close() leaves a closed channel and nobody waiting. *)
LEMMA Closing ==
  ASSUME Scalars, Messages, Connection, CloseChannel
  PROVE  /\ channel' = IF channel = "open" THEN "closed" ELSE channel
         /\ waiter' = Nobody
         /\ answer' \in [Owners -> Replies]
         /\ \A owner \in Owners : answer'[owner] \in {answer[owner], Rejected}
<1>1. CASE channel = "open"
  BY <1>1, Constants DEF CloseChannel, Scalars, Messages
<1>2. CASE channel # "open"
  BY <1>2 DEF CloseChannel, Messages, Connection
<1>3. QED
  BY <1>1, <1>2

(* An exchange waits, or is refused at once. *)
LEMMA Exchanging ==
  ASSUME Scalars, Messages, NEW owner \in Owners, NEW request \in Requests,
         waiter # owner, Exchange(owner, request)
  PROVE  /\ channel' = channel
         /\ waiter' \in {waiter, owner}
         /\ waiter' = owner => channel = "open"
         /\ waiter' = owner => answer'[owner] = NoReply
         /\ waiter' = waiter \/ waiter = Nobody
         /\ answer' \in [Owners -> Replies]
         /\ \A other \in Owners :
              answer'[other] \in {answer[other], Rejected, NoReply}
         /\ \A other \in Owners \ {owner} : answer'[other] = answer[other]
         /\ toHost' \in Seq(Requests)
         /\ toHost' = toHost \/ toHost' = Append(toHost, request)
<1>1. CASE channel = "open" /\ waiter = Nobody
  <2>1. toHost' \in Seq(Requests)
    BY <1>1 DEF Exchange, Messages
  <2>2. owner # Nobody
    BY Waiters
  <2>3. /\ waiter' = owner /\ channel' = channel
        /\ toHost' = Append(toHost, request)
        /\ answer' = [answer EXCEPT ![owner] = NoReply]
    BY <1>1 DEF Exchange
  <2>4. QED
    BY <1>1, <2>1, <2>2, <2>3, Constants DEF Messages
<1>2. CASE ~(channel = "open" /\ waiter = Nobody)
  <2>1. /\ UNCHANGED <<channel, waiter, toHost>>
        /\ answer' = [answer EXCEPT ![owner] = Rejected]
    BY <1>2 DEF Exchange
  <2>2. QED
    BY <2>1, Constants DEF Messages
<1>3. QED
  BY <1>1, <1>2

(* What the catch of run() may be given as owned. *)
MayFail(owned) ==
  /\ \/ owned = resource
     \/ at = "connecting" /\ owned = Resource("connected", FALSE)
     \/ /\ at = "generating" /\ resource.kind = "connected"
        /\ owned = Resource("retained", TRUE) /\ held # "absent"
  /\ at \notin {"failing", "finished"}
  /\ channel # "opening"
  /\ owned.kind \in {"unconnected", "closed"} => channel # "open"

(* However run() fails, the cleanup keeps the invariant. *)
LEMMA FailKeeps ==
  ASSUME IInv, NEW owned, MayFail(owned), Fail(owned),
         UNCHANGED <<reported, aborted, current, hostVars>>
  PROVE  IInv'
<1>0. /\ Scalars /\ Messages /\ Owned /\ Connection /\ Answered
      /\ Unsent /\ AskedOnce /\ Reported /\ Truth /\ Files
  BY DEF IInv
<1>a. /\ at' = "failing" /\ Cleanup(owned)
      /\ UNCHANGED <<nextId, fileVars, result, toHost>>
  BY DEF Fail
<1>b. /\ owned \in Resources
      /\ owned.known => held # "absent"
      /\ \/ owned = resource
         \/ /\ at = "connecting" /\ resource.kind \in {"unconnected", "closed"}
            /\ owned.kind = "connected" /\ owned.cleanup = NoCleanup
            /\ resource.kind = "closed" => resource.cleanup = NotConnected
         \/ /\ resource.kind = "connected"
            /\ owned.kind = "retained" /\ owned.cleanup = NoCleanup
      /\ owned.kind = "retained" => owned.known
  <2>1. CASE owned = resource
    BY <1>0, <2>1 DEF Scalars, Truth, Owned
  <2>2. CASE at = "connecting" /\ owned = Resource("connected", FALSE)
    BY <1>0, <2>2, ResourceOf DEF Owned, Kinds, Unsent
  <2>3. CASE /\ at = "generating" /\ resource.kind = "connected"
             /\ owned = Resource("retained", TRUE) /\ held # "absent"
    BY <1>0, <2>3, ResourceOf DEF Kinds
  <2>4. QED
    BY <2>1, <2>2, <2>3 DEF MayFail
<1>c. /\ at \notin {"failing", "finished"} /\ channel # "opening"
      /\ owned.kind \in {"unconnected", "closed"} => channel # "open"
      /\ owned.kind = "unconnected" => resource.kind = "unconnected"
      /\ owned.kind \in {"closed", "releasing"} => resource = owned
  BY <1>b DEF MayFail
<1>d. CASE LeftToOwner(owned)
  <2>1. Scalars'
    BY <1>0, <1>a, <1>b, <1>c, <1>d, Waiters
    DEF Scalars, LeftToOwner, fileVars, hostVars, Points
  <2>2. Messages'
    BY <1>0, <1>a, <1>b, <1>c, <1>d, Waiters
    DEF Messages, LeftToOwner, fileVars, hostVars
  <2>3. Owned'
    BY <1>0, <1>a, <1>b, <1>c, <1>d, Waiters
    DEF Owned, LeftToOwner, fileVars, hostVars, Scalars
  <2>4. Connection'
    BY <1>0, <1>a, <1>b, <1>c, <1>d, Waiters
    DEF Connection, Owned, LeftToOwner, fileVars, hostVars, Scalars
  <2>5. Answered'
    BY <1>0, <1>a, <1>b, <1>c, <1>d, Waiters
    DEF Answered, Owned, LeftToOwner, fileVars, hostVars, Scalars, NotConnected,
        NoCleanup, Waiting
  <2>6. Unsent'
    BY <1>0, <1>a, <1>b, <1>c, <1>d, Waiters
    DEF Unsent, NothingSent, Owned, LeftToOwner, fileVars, hostVars, Scalars,
        NotConnected, NoCleanup, Waiting
  <2>7. AskedOnce'
    BY <1>0, <1>a, <1>b, <1>c, <1>d, Waiters
    DEF AskedOnce, Generates, Outcomes, Unsent, NothingSent, LeftToOwner,
        fileVars, hostVars, Scalars
  <2>8. Reported'
    BY <1>0, <1>a, <1>b, <1>c, <1>d, Waiters
    DEF Reported, AskedOnce, Generates, Outcomes, LeftToOwner, fileVars,
        hostVars, Scalars
  <2>9. Truth'
    BY <1>0, <1>a, <1>b, <1>c, <1>d, Waiters
    DEF Truth, Owned, Unsent, NothingSent, AskedOnce, Generates, Outcomes,
        Reported, LeftToOwner, fileVars, hostVars, Scalars, NotConnected,
        NoCleanup, Waiting
  <2>10. Files'
    BY <1>0, <1>a, <1>b, <1>c, <1>d, Waiters
    DEF Files, Places, Before, Owned, Reported, Truth, LeftToOwner, fileVars,
        hostVars, Scalars
  <2>11. QED
    BY <2>1, <2>2, <2>3, <2>4, <2>5, <2>6, <2>7, <2>8, <2>9, <2>10 DEF IInv
<1>e. CASE ToRelease(owned)
  <2>a. /\ resource' \in Resources /\ resource'.kind = "releasing"
        /\ resource'.known /\ resource'.cleanup = NoCleanup
    BY <1>e, ResourceOf DEF ToRelease, Kinds
  <2>1. Scalars'
    BY <1>0, <1>a, <1>b, <1>c, <1>e, <2>a, Waiters
    DEF Scalars, ToRelease, fileVars, hostVars, Points
  <2>2. Messages'
    BY <1>0, <1>a, <1>b, <1>c, <1>e, <2>a, Waiters
    DEF Messages, ToRelease, fileVars, hostVars
  <2>3. Owned'
    BY <1>0, <1>a, <1>b, <1>c, <1>e, <2>a, Waiters
    DEF Owned, ToRelease, fileVars, hostVars, Scalars
  <2>4. Connection'
    BY <1>0, <1>a, <1>b, <1>c, <1>e, <2>a, Waiters
    DEF Connection, Owned, ToRelease, fileVars, hostVars, Scalars
  <2>5. Answered'
    BY <1>0, <1>a, <1>b, <1>c, <1>e, <2>a, Waiters
    DEF Answered, Owned, ToRelease, fileVars, hostVars, Scalars, NotConnected,
        NoCleanup, Waiting
  <2>6. Unsent'
    BY <1>0, <1>a, <1>b, <1>c, <1>e, <2>a, Waiters
    DEF Unsent, NothingSent, Owned, ToRelease, fileVars, hostVars, Scalars,
        NotConnected, NoCleanup, Waiting
  <2>7. AskedOnce'
    BY <1>0, <1>a, <1>b, <1>c, <1>e, <2>a, Waiters
    DEF AskedOnce, Generates, Outcomes, Unsent, NothingSent, ToRelease, fileVars,
        hostVars, Scalars
  <2>8. Reported'
    BY <1>0, <1>a, <1>b, <1>c, <1>e, <2>a, Waiters
    DEF Reported, AskedOnce, Generates, Outcomes, ToRelease, fileVars, hostVars,
        Scalars
  <2>9. Truth'
    <3>1. /\ NoCleanup.known = FALSE /\ NoCleanup.kind = "none"
          /\ held # "absent" /\ UNCHANGED <<held, replied, reported>>
      BY <1>a, <1>b, <1>e DEF ToRelease, NoCleanup, hostVars
    <3>2. QED
      BY <1>0, <2>a, <3>1 DEF Truth
  <2>10. Files'
    BY <1>0, <1>a, <1>b, <1>c, <1>e, <2>a, Waiters
    DEF Files, Places, Before, Owned, Reported, Truth, ToRelease, fileVars,
        hostVars, Scalars
  <2>11. QED
    BY <2>1, <2>2, <2>3, <2>4, <2>5, <2>6, <2>7, <2>8, <2>9, <2>10 DEF IInv
<1>f. CASE NeverOwned(owned)
  <2>a. /\ resource' \in Resources /\ resource'.kind = "closed"
        /\ ~resource'.known /\ resource'.cleanup = NotConnected
    BY <1>f, EndedOf, CleanupValues DEF NeverOwned, NotConnected
  <2>1. Scalars'
    BY <1>0, <1>a, <1>b, <1>c, <1>f, <2>a, Waiters
    DEF Scalars, NeverOwned, fileVars, hostVars, Points
  <2>2. Messages'
    BY <1>0, <1>a, <1>b, <1>c, <1>f, <2>a, Waiters
    DEF Messages, NeverOwned, fileVars, hostVars
  <2>3. Owned'
    BY <1>0, <1>a, <1>b, <1>c, <1>f, <2>a, Waiters
    DEF Owned, NeverOwned, fileVars, hostVars, Scalars
  <2>4. Connection'
    BY <1>0, <1>a, <1>b, <1>c, <1>f, <2>a, Waiters
    DEF Connection, Owned, NeverOwned, fileVars, hostVars, Scalars
  <2>5. Answered'
    BY <1>0, <1>a, <1>b, <1>c, <1>f, <2>a, Waiters
    DEF Answered, Owned, NeverOwned, fileVars, hostVars, Scalars, NotConnected,
        NoCleanup, Waiting
  <2>6. Unsent'
    BY <1>0, <1>a, <1>b, <1>c, <1>f, <2>a, Waiters
    DEF Unsent, NothingSent, Owned, NeverOwned, fileVars, hostVars, Scalars,
        NotConnected, NoCleanup, Waiting
  <2>7. AskedOnce'
    BY <1>0, <1>a, <1>b, <1>c, <1>f, <2>a, Waiters
    DEF AskedOnce, Generates, Outcomes, Unsent, NothingSent, NeverOwned,
        fileVars, hostVars, Scalars
  <2>8. Reported'
    BY <1>0, <1>a, <1>b, <1>c, <1>f, <2>a, Waiters
    DEF Reported, AskedOnce, Generates, Outcomes, NeverOwned, fileVars, hostVars,
        Scalars
  <2>9. Truth'
    BY <1>0, <1>a, <1>b, <1>c, <1>f, <2>a, Waiters
    DEF Truth, Owned, Unsent, NothingSent, AskedOnce, Generates, Outcomes,
        Reported, NeverOwned, fileVars, hostVars, Scalars, NotConnected,
        NoCleanup, Waiting
  <2>10. Files'
    BY <1>0, <1>a, <1>b, <1>c, <1>f, <2>a, Waiters
    DEF Files, Places, Before, Owned, Reported, Truth, NeverOwned, fileVars,
        hostVars, Scalars
  <2>11. QED
    BY <2>1, <2>2, <2>3, <2>4, <2>5, <2>6, <2>7, <2>8, <2>9, <2>10 DEF IInv
<1>g. CASE GivenUp(owned)
  <2>z. PICK reason \in {"pending-exchange", "unknown-retention"} :
          resource' = Ended(Closed(reason, owned.known))
    BY <1>g DEF GivenUp
  <2>y. owned.known \in BOOLEAN
    BY <1>b, ResourceParts
  <2>a. /\ resource' \in Resources /\ resource'.kind = "closed"
        /\ resource'.known = owned.known
        /\ resource'.cleanup = Closed(reason, owned.known)
        /\ resource'.cleanup.kind = reason
        /\ resource'.cleanup.known = owned.known
    <3>1. Closed(reason, owned.known) \in Cleanups
      BY <2>y DEF Cleanups, CleanupKinds, Closed
    <3>2. QED
      BY <2>z, <3>1, EndedOf DEF Closed
  <2>b. /\ channel' = IF channel = "open" THEN "closed" ELSE channel
        /\ waiter' = Nobody /\ release' = release
        /\ answer' \in [Owners -> Replies]
        /\ \A owner \in Owners : answer'[owner] \in {answer[owner], Rejected}
    BY <1>0, <1>g, Closing DEF GivenUp
  <2>c. /\ owned.kind \in {"connected", "exchanging", "retained"}
        /\ resource.kind # "releasing"
        /\ resource.kind = "closed" => at = "connecting"
    BY <1>b, <1>g DEF GivenUp
  <2>1. Scalars'
    BY <1>0, <1>a, <1>b, <1>c, <1>g, <2>a, <2>b, <2>c, Waiters
    DEF Scalars, fileVars, hostVars, Points
  <2>2. Messages'
    BY <1>0, <1>a, <1>b, <1>c, <1>g, <2>a, <2>b, <2>c, Waiters
    DEF Messages, fileVars, hostVars
  <2>3. Owned'
    BY <1>0, <1>a, <1>b, <1>c, <1>g, <2>a, <2>b, <2>c, Waiters
    DEF Owned, fileVars, hostVars, Scalars
  <2>4. Connection'
    BY <1>0, <1>a, <1>b, <1>c, <1>g, <2>a, <2>b, <2>c, Waiters
    DEF Connection, Owned, fileVars, hostVars, Scalars
  <2>5. Answered'
    BY <1>0, <1>a, <1>b, <1>c, <1>g, <2>a, <2>b, <2>c, Waiters
    DEF Answered, Owned, fileVars, hostVars, Scalars, NotConnected, NoCleanup,
        Waiting
  <2>6. Unsent'
    BY <1>0, <1>a, <1>b, <1>c, <1>g, <2>a, <2>b, <2>c, Waiters
    DEF Unsent, NothingSent, Owned, fileVars, hostVars, Scalars, NotConnected,
        NoCleanup, Waiting
  <2>7. AskedOnce'
    BY <1>0, <1>a, <1>b, <1>c, <1>g, <2>a, <2>b, <2>c, Waiters
    DEF AskedOnce, Generates, Outcomes, Unsent, NothingSent, fileVars, hostVars,
        Scalars
  <2>8. Reported'
    BY <1>0, <1>a, <1>b, <1>c, <1>g, <2>a, <2>b, <2>c, Waiters
    DEF Reported, AskedOnce, Generates, Outcomes, fileVars, hostVars, Scalars
  <2>9. Truth'
    BY <1>0, <1>a, <1>b, <1>c, <1>g, <2>a, <2>b, <2>c, Waiters
    DEF Truth, Owned, Unsent, NothingSent, AskedOnce, Generates, Outcomes,
        Reported, fileVars, hostVars, Scalars, NotConnected, NoCleanup, Waiting
  <2>10. Files'
    BY <1>0, <1>a, <1>b, <1>c, <1>g, <2>a, <2>b, <2>c, Waiters
    DEF Files, Places, Before, Owned, Reported, Truth, fileVars, hostVars, Scalars
  <2>11. QED
    BY <2>1, <2>2, <2>3, <2>4, <2>5, <2>6, <2>7, <2>8, <2>9, <2>10 DEF IInv
<1>h. QED
  BY <1>a, <1>b, <1>d, <1>e, <1>f, <1>g, CleanupCases

(* run() sends a request: it owns the exchange until it is settled. *)
LEMMA Asking ==
  ASSUME Scalars, Messages, waiter # "run", NEW point, NEW known \in BOOLEAN,
         NEW request \in Requests, Ask(point, known, request)
  PROVE  /\ at' = point /\ UNCHANGED <<release, result, channel>>
         /\ resource' \in Resources /\ resource'.kind = "exchanging"
         /\ resource'.known = known /\ resource'.cleanup = NoCleanup
         /\ waiter' \in {waiter, "run"}
         /\ waiter' = "run" => channel = "open"
         /\ waiter' = "run" => answer'["run"] = NoReply
         /\ answer' \in [Owners -> Replies]
         /\ \A other \in Owners :
              answer'[other] \in {answer[other], Rejected, NoReply}
         /\ answer'["release"] = answer["release"]
         /\ toHost' \in Seq(Requests)
         /\ \A n \in DOMAIN toHost' :
              \/ n \in DOMAIN toHost /\ toHost'[n] = toHost[n]
              \/ n = Len(toHost) + 1 /\ toHost'[n] = request
<1>1. /\ at' = point /\ resource' = Resource("exchanging", known)
      /\ Exchange("run", request) /\ UNCHANGED <<release, result>>
  BY DEF Ask
<1>2. "run" \in Owners /\ "release" \in Owners \ {"run"}
  BY Waiters
<1>3. /\ resource' \in Resources /\ resource'.kind = "exchanging"
      /\ resource'.known = known /\ resource'.cleanup = NoCleanup
  BY <1>1, ResourceOf DEF Kinds
<1>4. toHost' \in Seq(Requests) /\ (toHost' = toHost \/ toHost' = Append(toHost, request))
  BY <1>1, <1>2, Exchanging
<1>5. \A n \in DOMAIN toHost' :
        \/ n \in DOMAIN toHost /\ toHost'[n] = toHost[n]
        \/ n = Len(toHost) + 1 /\ toHost'[n] = request
  BY <1>4 DEF Messages
<1>6. QED
  BY <1>1, <1>2, <1>3, <1>4, <1>5, Exchanging

(* What is true of a run() that is current, wherever it resumes. *)
LEMMA WhileCurrent ==
  ASSUME IInv, IsCurrent, at \notin {"failing", "publishing", "finished"}
  PROVE  /\ ~aborted /\ reported = NoCleanup
         /\ resource.kind \in {"unconnected", "connected", "retained", "exchanging"}
         /\ resource.cleanup = NoCleanup
         /\ release \notin {"queued", "sent"}
         /\ waiter # "release"
         /\ resource.kind # "exchanging" => waiter = Nobody
<1>1. Scalars /\ Owned /\ Answered /\ Connection /\ resource.kind \in Kinds
  BY ResourceParts DEF IInv, Scalars
<1>2. QED
  BY <1>1, Waiters DEF Scalars, Owned, Answered, Connection, IsCurrent, Kinds

(* Where run() resumes from its own work, what it owns may be cleaned up. *)
LEMMA MayFailHere ==
  ASSUME IInv, at \in {"initializing", "generating", "receiving", "verifying",
                       "publishing"}
  PROVE  MayFail(resource)
  BY DEF IInv, MayFail, Connection, Owned

-----------------------------------------------------------------------------
(* The actions of the channel. *)

LEMMA OpenKeeps ==
  ASSUME IInv, Open
  PROVE  IInv'
<1>0. /\ Scalars /\ Messages /\ Owned /\ Connection /\ Answered
      /\ Unsent /\ AskedOnce /\ Reported /\ Truth /\ Files
  BY DEF IInv
<1>1. Scalars'
  BY <1>0
  DEF Scalars, Open, attemptVars, channelVars, hostVars, fileVars
<1>2. Messages'
  BY <1>0
  DEF Messages, Open, attemptVars, channelVars, hostVars, fileVars
<1>3. Owned'
  BY <1>0
  DEF Owned, Open, attemptVars, channelVars, hostVars, fileVars, Scalars
<1>4. Connection'
  BY <1>0
  DEF Connection, Owned, Open, attemptVars, channelVars, hostVars, fileVars,
      Scalars
<1>5. Answered'
  BY <1>0
  DEF Answered, Owned, Open, attemptVars, channelVars, hostVars, fileVars, Scalars
<1>6. Unsent'
  BY <1>0
  DEF Unsent, NothingSent, Owned, Open, attemptVars, channelVars, hostVars,
      fileVars, Scalars
<1>7. AskedOnce'
  BY <1>0
  DEF AskedOnce, Generates, Outcomes, Unsent, NothingSent, Open, attemptVars,
      channelVars, hostVars, fileVars, Scalars
<1>8. Reported'
  BY <1>0
  DEF Reported, AskedOnce, Generates, Outcomes, Open, attemptVars, channelVars,
      hostVars, fileVars, Scalars
<1>9. Truth'
  BY <1>0
  DEF Truth, Owned, Unsent, NothingSent, AskedOnce, Generates, Outcomes,
      Reported, Open, attemptVars, channelVars, hostVars, fileVars, Scalars
<1>10. Files'
  BY <1>0
  DEF Files, Places, Before, Owned, Reported, Truth, Open, attemptVars,
      channelVars, hostVars, fileVars, Scalars
<1>11. QED
  BY <1>1, <1>2, <1>3, <1>4, <1>5, <1>6, <1>7, <1>8, <1>9, <1>10 DEF IInv

(* The socket does not open, or the setup times out. *)
LEMMA OpenFailsKeeps ==
  ASSUME IInv, OpenFails
  PROVE  IInv'
<1>0. /\ Scalars /\ Messages /\ Owned /\ Connection /\ Answered
      /\ Unsent /\ AskedOnce /\ Reported /\ Truth /\ Files
  BY DEF IInv
<1>1. Scalars'
  BY <1>0
  DEF Scalars, OpenFails, attemptVars, channelVars, hostVars, fileVars
<1>2. Messages'
  BY <1>0
  DEF Messages, OpenFails, attemptVars, channelVars, hostVars, fileVars
<1>3. Owned'
  BY <1>0
  DEF Owned, OpenFails, attemptVars, channelVars, hostVars, fileVars, Scalars
<1>4. Connection'
  BY <1>0
  DEF Connection, Owned, OpenFails, attemptVars, channelVars, hostVars, fileVars,
      Scalars
<1>5. Answered'
  BY <1>0
  DEF Answered, Owned, OpenFails, attemptVars, channelVars, hostVars, fileVars,
      Scalars
<1>6. Unsent'
  BY <1>0
  DEF Unsent, NothingSent, Owned, OpenFails, attemptVars, channelVars, hostVars,
      fileVars, Scalars
<1>7. AskedOnce'
  BY <1>0
  DEF AskedOnce, Generates, Outcomes, Unsent, NothingSent, OpenFails,
      attemptVars, channelVars, hostVars, fileVars, Scalars
<1>8. Reported'
  BY <1>0
  DEF Reported, AskedOnce, Generates, Outcomes, OpenFails, attemptVars,
      channelVars, hostVars, fileVars, Scalars
<1>9. Truth'
  BY <1>0
  DEF Truth, Owned, Unsent, NothingSent, AskedOnce, Generates, Outcomes,
      Reported, OpenFails, attemptVars, channelVars, hostVars, fileVars, Scalars
<1>10. Files'
  BY <1>0
  DEF Files, Places, Before, Owned, Reported, Truth, OpenFails, attemptVars,
      channelVars, hostVars, fileVars, Scalars
<1>11. QED
  BY <1>1, <1>2, <1>3, <1>4, <1>5, <1>6, <1>7, <1>8, <1>9, <1>10 DEF IInv

(* The timeout of an exchange closes the channel. *)
LEMMA ExchangeTimesOutKeeps ==
  ASSUME IInv, ExchangeTimesOut
  PROVE  IInv'
<1>0. /\ Scalars /\ Messages /\ Owned /\ Connection /\ Answered
      /\ Unsent /\ AskedOnce /\ Reported /\ Truth /\ Files
  BY DEF IInv
<1>a. /\ channel' = IF channel = "open" THEN "closed" ELSE channel
      /\ waiter' = Nobody
      /\ answer' \in [Owners -> Replies]
      /\ \A owner \in Owners : answer'[owner] \in {answer[owner], Rejected}
  BY <1>0, Closing DEF ExchangeTimesOut
<1>1. Scalars'
  BY <1>0, <1>a, Waiters
  DEF Scalars, ExchangeTimesOut, attemptVars, channelVars, hostVars, fileVars
<1>2. Messages'
  BY <1>0, <1>a DEF ExchangeTimesOut, Messages, attemptVars, hostVars
<1>3. Owned'
  BY <1>0, <1>a, Waiters
  DEF Owned, ExchangeTimesOut, attemptVars, channelVars, hostVars, fileVars,
      Scalars
<1>4. Connection'
  BY <1>0, <1>a, Waiters
  DEF Connection, Owned, ExchangeTimesOut, attemptVars, channelVars, hostVars,
      fileVars, Scalars
<1>5. Answered'
  BY <1>0, <1>a, Waiters
  DEF Answered, Owned, ExchangeTimesOut, attemptVars, channelVars, hostVars,
      fileVars, Scalars
<1>6. Unsent'
  BY <1>0, <1>a, Waiters
  DEF Unsent, NothingSent, Owned, ExchangeTimesOut, attemptVars, channelVars,
      hostVars, fileVars, Scalars
<1>7. AskedOnce'
  BY <1>0, <1>a, Waiters
  DEF AskedOnce, Generates, Outcomes, Unsent, NothingSent, ExchangeTimesOut,
      attemptVars, channelVars, hostVars, fileVars, Scalars
<1>8. Reported'
  BY <1>0, <1>a, Waiters
  DEF Reported, AskedOnce, Generates, Outcomes, ExchangeTimesOut, attemptVars,
      channelVars, hostVars, fileVars, Scalars
<1>9. Truth'
  BY <1>0, <1>a, Waiters
  DEF Truth, Owned, Unsent, NothingSent, AskedOnce, Generates, Outcomes,
      Reported, ExchangeTimesOut, attemptVars, channelVars, hostVars, fileVars,
      Scalars
<1>10. Files'
  BY <1>0, <1>a, Waiters
  DEF Files, Places, Before, Owned, Reported, Truth, ExchangeTimesOut,
      attemptVars, channelVars, hostVars, fileVars, Scalars
<1>11. QED
  BY <1>1, <1>2, <1>3, <1>4, <1>5, <1>6, <1>7, <1>8, <1>9, <1>10 DEF IInv

(* The socket ends. *)
LEMMA DisconnectKeeps ==
  ASSUME IInv, Disconnect
  PROVE  IInv'
<1>0. /\ Scalars /\ Messages /\ Owned /\ Connection /\ Answered
      /\ Unsent /\ AskedOnce /\ Reported /\ Truth /\ Files
  BY DEF IInv
<1>a. /\ channel' = IF channel = "open" THEN "closed" ELSE channel
      /\ waiter' = Nobody
      /\ answer' \in [Owners -> Replies]
      /\ \A owner \in Owners : answer'[owner] \in {answer[owner], Rejected}
  BY <1>0, Closing DEF Disconnect
<1>1. Scalars'
  BY <1>0, <1>a, Waiters
  DEF Scalars, Disconnect, attemptVars, channelVars, hostVars, fileVars
<1>2. Messages'
  BY <1>0, <1>a DEF Disconnect, Messages, attemptVars, hostVars
<1>3. Owned'
  BY <1>0, <1>a, Waiters
  DEF Owned, Disconnect, attemptVars, channelVars, hostVars, fileVars, Scalars
<1>4. Connection'
  BY <1>0, <1>a, Waiters
  DEF Connection, Owned, Disconnect, attemptVars, channelVars, hostVars,
      fileVars, Scalars
<1>5. Answered'
  BY <1>0, <1>a, Waiters
  DEF Answered, Owned, Disconnect, attemptVars, channelVars, hostVars, fileVars,
      Scalars
<1>6. Unsent'
  BY <1>0, <1>a, Waiters
  DEF Unsent, NothingSent, Owned, Disconnect, attemptVars, channelVars, hostVars,
      fileVars, Scalars
<1>7. AskedOnce'
  BY <1>0, <1>a, Waiters
  DEF AskedOnce, Generates, Outcomes, Unsent, NothingSent, Disconnect,
      attemptVars, channelVars, hostVars, fileVars, Scalars
<1>8. Reported'
  BY <1>0, <1>a, Waiters
  DEF Reported, AskedOnce, Generates, Outcomes, Disconnect, attemptVars,
      channelVars, hostVars, fileVars, Scalars
<1>9. Truth'
  BY <1>0, <1>a, Waiters
  DEF Truth, Owned, Unsent, NothingSent, AskedOnce, Generates, Outcomes,
      Reported, Disconnect, attemptVars, channelVars, hostVars, fileVars, Scalars
<1>10. Files'
  BY <1>0, <1>a, Waiters
  DEF Files, Places, Before, Owned, Reported, Truth, Disconnect, attemptVars,
      channelVars, hostVars, fileVars, Scalars
<1>11. QED
  BY <1>1, <1>2, <1>3, <1>4, <1>5, <1>6, <1>7, <1>8, <1>9, <1>10 DEF IInv

(* A frame arrives and settles the pending exchange, or closes the channel. *)
LEMMA ReceiveKeeps ==
  ASSUME IInv, Receive
  PROVE  IInv'
<1>0. /\ Scalars /\ Messages /\ Owned /\ Connection /\ Answered
      /\ Unsent /\ AskedOnce /\ Reported /\ Truth /\ Files
  BY DEF IInv
<1>a. /\ toClient' \in Seq(Replies)
      /\ \A n \in DOMAIN toClient' :
           n + 1 \in DOMAIN toClient /\ toClient'[n] = toClient[n + 1]
      /\ Head(toClient) \in Replies
      /\ Head(toClient) = toClient[1] /\ 1 \in DOMAIN toClient
  BY <1>0 DEF Receive, Messages
<1>b. /\ waiter' = Nobody
      /\ answer' \in [Owners -> Replies]
      /\ \A owner \in Owners :
           answer'[owner] \in {answer[owner], Rejected, Head(toClient)}
      /\ channel' \in {channel, "closed"}
      /\ channel' = "closed" => channel \in {"open", "closed"}
  <2>1. CASE /\ channel = "open" /\ waiter # Nobody
             /\ Head(toClient).kind # "unreadable"
    BY <1>0, <1>a, <2>1 DEF Receive, Messages, Scalars
  <2>2. CASE CloseChannel
    BY <1>0, <2>2, Closing DEF Scalars
  <2>3. QED
    BY <2>1, <2>2 DEF Receive
<1>1. Scalars'
  BY <1>0, <1>a, <1>b, Waiters
  DEF Scalars, Receive, attemptVars, channelVars, hostVars, fileVars
<1>2. Messages'
  BY <1>0, <1>a, <1>b DEF Receive, Messages, attemptVars
<1>3. Owned'
  BY <1>0, <1>a, <1>b, Waiters
  DEF Owned, Receive, attemptVars, channelVars, hostVars, fileVars, Scalars
<1>4. Connection'
  BY <1>0, <1>a, <1>b, Waiters
  DEF Connection, Owned, Receive, attemptVars, channelVars, hostVars, fileVars,
      Scalars
<1>5. Answered'
  BY <1>0, <1>a, <1>b, Waiters
  DEF Answered, Owned, Receive, attemptVars, channelVars, hostVars, fileVars,
      Scalars
<1>6. Unsent'
  BY <1>0, <1>a, <1>b, Waiters
  DEF Unsent, NothingSent, Owned, Receive, attemptVars, channelVars, hostVars,
      fileVars, Scalars
<1>7. AskedOnce'
  BY <1>0, <1>a, <1>b, Waiters
  DEF AskedOnce, Generates, Outcomes, Unsent, NothingSent, Receive, attemptVars,
      channelVars, hostVars, fileVars, Scalars
<1>8. Reported'
  BY <1>0, <1>a, <1>b, Waiters
  DEF Reported, AskedOnce, Generates, Outcomes, Receive, attemptVars,
      channelVars, hostVars, fileVars, Scalars
<1>9. Truth'
  BY <1>0, <1>a, <1>b, Waiters
  DEF Truth, Owned, Unsent, NothingSent, AskedOnce, Generates, Outcomes,
      Reported, Receive, attemptVars, channelVars, hostVars, fileVars, Scalars
<1>10. Files'
  BY <1>0, <1>a, <1>b, Waiters
  DEF Files, Places, Before, Owned, Reported, Truth, Receive, attemptVars,
      channelVars, hostVars, fileVars, Scalars
<1>11. QED
  BY <1>1, <1>2, <1>3, <1>4, <1>5, <1>6, <1>7, <1>8, <1>9, <1>10 DEF IInv

-----------------------------------------------------------------------------
(* The actions of the host. *)

LEMMA HostInitializesKeeps ==
  ASSUME IInv, HostInitializes
  PROVE  IInv'
<1>0. /\ Scalars /\ Messages /\ Owned /\ Connection /\ Answered
      /\ Unsent /\ AskedOnce /\ Reported /\ Truth /\ Files
  BY DEF IInv
<1>a. /\ toHost # <<>> /\ Head(toHost).method = "initialize"
      /\ Head(toHost) \in Requests /\ Head(toHost).id \in Nat
      /\ Head(toHost).place \in Nat \X Nat
  BY <1>0, FirstRequest DEF HostInitializes, Asked
<1>b. PICK reply \in Replies : /\ Answers(reply) /\ produced' \in Inventory
                             /\ reply.kind = "initialized"
  BY <1>0, <1>a, PlainOf DEF HostInitializes, ReplyKinds, Messages
<1>c. /\ Messages'
      /\ \A n \in DOMAIN toClient' :
           (n \in DOMAIN toClient /\ toClient'[n] = toClient[n]) \/ toClient'[n] = reply
      /\ \A n \in DOMAIN toHost' :
           n + 1 \in DOMAIN toHost /\ toHost'[n] = toHost[n + 1]
      /\ \A n \in Generates' : n \in Nat /\ n + 1 \in Generates /\ n + 1 # 1
  BY <1>0, <1>a, <1>b, AnswersTypes
<1>d. /\ replied' = replied \cup {reply} /\ UNCHANGED answer
  BY <1>b DEF Answers
<1>1. Scalars'
  BY <1>0
  DEF Scalars, HostInitializes, Asked, Answers, attemptVars, channelVars,
      hostVars, fileVars
<1>2. Messages'
  BY <1>c
<1>3. Owned'
  BY <1>0
  DEF Owned, HostInitializes, Asked, Answers, attemptVars, channelVars, hostVars,
      fileVars, Scalars
<1>4. Connection'
  BY <1>0
  DEF Connection, Owned, HostInitializes, Asked, Answers, attemptVars,
      channelVars, hostVars, fileVars, Scalars
<1>5. Answered'
  BY <1>0
  DEF Answered, Owned, HostInitializes, Asked, Answers, attemptVars, channelVars,
      hostVars, fileVars, Scalars
<1>6. Unsent'
  BY <1>0
  DEF Unsent, NothingSent, Owned, HostInitializes, Asked, Answers, attemptVars,
      channelVars, hostVars, fileVars, Scalars
<1>7. AskedOnce'
  BY <1>0, <1>a, <1>b, <1>c, <1>d
  DEF HostInitializes, Answers, AskedOnce, Outcomes, attemptVars
<1>8. Reported'
  BY <1>0, <1>a, <1>b, <1>c, <1>d
  DEF HostInitializes, Reported
<1>9. Truth'
  BY <1>0
  DEF Truth, Owned, Unsent, NothingSent, AskedOnce, Generates, Outcomes,
      Reported, HostInitializes, Asked, Answers, attemptVars, channelVars,
      hostVars, fileVars, Scalars
<1>10. Files'
  BY <1>0
  DEF Files, Places, Before, Owned, Reported, Truth, HostInitializes, Asked,
      Answers, attemptVars, channelVars, hostVars, fileVars, Scalars
<1>11. QED
  BY <1>1, <1>2, <1>3, <1>4, <1>5, <1>6, <1>7, <1>8, <1>9, <1>10 DEF IInv

(* The host says that it produced nothing. *)
LEMMA HostCannotProduceKeeps ==
  ASSUME IInv, HostCannotProduce
  PROVE  IInv'
<1>0. /\ Scalars /\ Messages /\ Owned /\ Connection /\ Answered
      /\ Unsent /\ AskedOnce /\ Reported /\ Truth /\ Files
  BY DEF IInv
<1>a. /\ toHost # <<>> /\ Head(toHost).method = "generate"
      /\ Head(toHost) \in Requests /\ Head(toHost).id \in Nat
      /\ Head(toHost).place \in Nat \X Nat
  BY <1>0, FirstRequest DEF HostCannotProduce, Asked
<1>b. PICK reply \in Replies : /\ Answers(reply) /\ produced' \in Inventory
                             /\ reply.kind = "failed"
  BY <1>0, <1>a, PlainOf DEF HostCannotProduce, ReplyKinds, Messages
<1>c. /\ Messages'
      /\ \A n \in DOMAIN toClient' :
           (n \in DOMAIN toClient /\ toClient'[n] = toClient[n]) \/ toClient'[n] = reply
      /\ \A n \in DOMAIN toHost' :
           n + 1 \in DOMAIN toHost /\ toHost'[n] = toHost[n + 1]
      /\ \A n \in Generates' : n \in Nat /\ n + 1 \in Generates /\ n + 1 # 1
  BY <1>0, <1>a, <1>b, AnswersTypes
<1>d. /\ replied' = replied \cup {reply} /\ UNCHANGED answer
  BY <1>b DEF Answers
<1>e. Generates # {} /\ held = "absent" /\ Outcomes = {} /\ Generates' = {}
  <2>1. 1 \in Generates
    BY <1>0, <1>a, FirstRequest DEF Generates
  <2>2. \A n \in Generates' : FALSE
    BY <1>0, <1>c, <2>1 DEF AskedOnce
  <2>3. QED
    BY <1>0, <2>1, <2>2 DEF AskedOnce
<1>1. Scalars'
  BY <1>0
  DEF Scalars, HostCannotProduce, Asked, Answers, attemptVars, channelVars,
      hostVars, fileVars
<1>2. Messages'
  BY <1>c
<1>3. Owned'
  BY <1>0
  DEF Owned, HostCannotProduce, Asked, Answers, attemptVars, channelVars,
      hostVars, fileVars, Scalars
<1>4. Connection'
  BY <1>0
  DEF Connection, Owned, HostCannotProduce, Asked, Answers, attemptVars,
      channelVars, hostVars, fileVars, Scalars
<1>5. Answered'
  BY <1>0
  DEF Answered, Owned, HostCannotProduce, Asked, Answers, attemptVars,
      channelVars, hostVars, fileVars, Scalars
<1>6. Unsent'
  BY <1>0
  DEF Unsent, NothingSent, Owned, HostCannotProduce, Asked, Answers, attemptVars,
      channelVars, hostVars, fileVars, Scalars
<1>7. AskedOnce'
  BY <1>0, <1>a, <1>b, <1>c, <1>d, <1>e
  DEF HostCannotProduce, Answers, AskedOnce, Outcomes, attemptVars
<1>8. Reported'
  BY <1>0, <1>a, <1>b, <1>c, <1>d, <1>e
  DEF HostCannotProduce, Reported
<1>9. Truth'
  BY <1>0
  DEF Truth, Owned, Unsent, NothingSent, AskedOnce, Generates, Outcomes,
      Reported, HostCannotProduce, Asked, Answers, attemptVars, channelVars,
      hostVars, fileVars, Scalars
<1>10. Files'
  BY <1>0
  DEF Files, Places, Before, Owned, Reported, Truth, HostCannotProduce, Asked,
      Answers, attemptVars, channelVars, hostVars, fileVars, Scalars
<1>11. QED
  BY <1>1, <1>2, <1>3, <1>4, <1>5, <1>6, <1>7, <1>8, <1>9, <1>10 DEF IInv

(* The host releases its generation and says so. *)
LEMMA HostReleasesKeeps ==
  ASSUME IInv, HostReleases
  PROVE  IInv'
<1>0. /\ Scalars /\ Messages /\ Owned /\ Connection /\ Answered
      /\ Unsent /\ AskedOnce /\ Reported /\ Truth /\ Files
  BY DEF IInv
<1>a. /\ toHost # <<>> /\ Head(toHost).method = "release"
      /\ Head(toHost) \in Requests /\ Head(toHost).id \in Nat
      /\ Head(toHost).place \in Nat \X Nat
  BY <1>0, FirstRequest DEF HostReleases, Asked
<1>b. PICK reply \in Replies : /\ Answers(reply) /\ produced' \in Inventory
                             /\ reply.kind = "released"
  BY <1>0, <1>a, PlainOf DEF HostReleases, ReplyKinds, Messages
<1>c. /\ Messages'
      /\ \A n \in DOMAIN toClient' :
           (n \in DOMAIN toClient /\ toClient'[n] = toClient[n]) \/ toClient'[n] = reply
      /\ \A n \in DOMAIN toHost' :
           n + 1 \in DOMAIN toHost /\ toHost'[n] = toHost[n + 1]
      /\ \A n \in Generates' : n \in Nat /\ n + 1 \in Generates /\ n + 1 # 1
  BY <1>0, <1>a, <1>b, AnswersTypes
<1>d. /\ replied' = replied \cup {reply} /\ UNCHANGED answer
  BY <1>b DEF Answers
<1>1. Scalars'
  BY <1>0
  DEF Scalars, HostReleases, Asked, Answers, attemptVars, channelVars, hostVars,
      fileVars
<1>2. Messages'
  BY <1>c
<1>3. Owned'
  BY <1>0
  DEF Owned, HostReleases, Asked, Answers, attemptVars, channelVars, hostVars,
      fileVars, Scalars
<1>4. Connection'
  BY <1>0
  DEF Connection, Owned, HostReleases, Asked, Answers, attemptVars, channelVars,
      hostVars, fileVars, Scalars
<1>5. Answered'
  BY <1>0
  DEF Answered, Owned, HostReleases, Asked, Answers, attemptVars, channelVars,
      hostVars, fileVars, Scalars
<1>6. Unsent'
  BY <1>0
  DEF Unsent, NothingSent, Owned, HostReleases, Asked, Answers, attemptVars,
      channelVars, hostVars, fileVars, Scalars
<1>7. AskedOnce'
  BY <1>0, <1>a, <1>b, <1>c, <1>d
  DEF HostReleases, Answers, AskedOnce, Outcomes, attemptVars
<1>8. Reported'
  BY <1>0, <1>a, <1>b, <1>c, <1>d
  DEF HostReleases, Reported
<1>9. Truth'
  BY <1>0
  DEF Truth, Owned, Unsent, NothingSent, AskedOnce, Generates, Outcomes,
      Reported, HostReleases, Asked, Answers, attemptVars, channelVars, hostVars,
      fileVars, Scalars
<1>10. Files'
  BY <1>0
  DEF Files, Places, Before, Owned, Reported, Truth, HostReleases, Asked,
      Answers, attemptVars, channelVars, hostVars, fileVars, Scalars
<1>11. QED
  BY <1>1, <1>2, <1>3, <1>4, <1>5, <1>6, <1>7, <1>8, <1>9, <1>10 DEF IInv

(* The host answers a read. *)
LEMMA HostReadsKeeps ==
  ASSUME IInv, HostReads
  PROVE  IInv'
<1>0. /\ Scalars /\ Messages /\ Owned /\ Connection /\ Answered
      /\ Unsent /\ AskedOnce /\ Reported /\ Truth /\ Files
  BY DEF IInv
<1>a. /\ toHost # <<>> /\ Head(toHost).method = "read"
      /\ Head(toHost) \in Requests /\ Head(toHost).id \in Nat
      /\ Head(toHost).place \in Nat \X Nat
  BY <1>0, FirstRequest DEF HostReads, Asked
<1>b. PICK reply \in Replies : /\ Answers(reply) /\ produced' \in Inventory
                             /\ reply.kind = "chunk"
  <2>1. [place |-> Head(toHost).place, genuine |-> TRUE] \in Chunks
    BY <1>a DEF Chunks
  <2>2. QED
    <3>1. /\ Answers(Reply(Head(toHost).id, "chunk", NoManifest,
                           [place |-> Head(toHost).place, genuine |-> TRUE]))
          /\ produced' = produced
      BY DEF HostReads
    <3>2. produced' \in Inventory /\ "chunk" \in ReplyKinds
      BY <1>0, <3>1 DEF ReplyKinds, Messages
    <3>3. QED
      BY <1>a, <2>1, <3>1, <3>2, ReplyOf, Constants
<1>c. /\ Messages'
      /\ \A n \in DOMAIN toClient' :
           (n \in DOMAIN toClient /\ toClient'[n] = toClient[n]) \/ toClient'[n] = reply
      /\ \A n \in DOMAIN toHost' :
           n + 1 \in DOMAIN toHost /\ toHost'[n] = toHost[n + 1]
      /\ \A n \in Generates' : n \in Nat /\ n + 1 \in Generates /\ n + 1 # 1
  BY <1>0, <1>a, <1>b, AnswersTypes
<1>d. /\ replied' = replied \cup {reply} /\ UNCHANGED answer
  BY <1>b DEF Answers
<1>1. Scalars'
  BY <1>0
  DEF Scalars, HostReads, Asked, Answers, attemptVars, channelVars, hostVars,
      fileVars
<1>2. Messages'
  BY <1>c
<1>3. Owned'
  BY <1>0
  DEF Owned, HostReads, Asked, Answers, attemptVars, channelVars, hostVars,
      fileVars, Scalars
<1>4. Connection'
  BY <1>0
  DEF Connection, Owned, HostReads, Asked, Answers, attemptVars, channelVars,
      hostVars, fileVars, Scalars
<1>5. Answered'
  BY <1>0
  DEF Answered, Owned, HostReads, Asked, Answers, attemptVars, channelVars,
      hostVars, fileVars, Scalars
<1>6. Unsent'
  BY <1>0
  DEF Unsent, NothingSent, Owned, HostReads, Asked, Answers, attemptVars,
      channelVars, hostVars, fileVars, Scalars
<1>7. AskedOnce'
  BY <1>0, <1>a, <1>b, <1>c, <1>d
  DEF HostReads, Answers, AskedOnce, Outcomes, attemptVars
<1>8. Reported'
  BY <1>0, <1>a, <1>b, <1>c, <1>d
  DEF HostReads, Reported
<1>9. Truth'
  BY <1>0
  DEF Truth, Owned, Unsent, NothingSent, AskedOnce, Generates, Outcomes,
      Reported, HostReads, Asked, Answers, attemptVars, channelVars, hostVars,
      fileVars, Scalars
<1>10. Files'
  BY <1>0
  DEF Files, Places, Before, Owned, Reported, Truth, HostReads, Asked, Answers,
      attemptVars, channelVars, hostVars, fileVars, Scalars
<1>11. QED
  BY <1>1, <1>2, <1>3, <1>4, <1>5, <1>6, <1>7, <1>8, <1>9, <1>10 DEF IInv

(* The host produces a generation: it was asked once, so it held none. *)
LEMMA HostProducesKeeps ==
  ASSUME IInv, HostProduces
  PROVE  IInv'
<1>0. /\ Scalars /\ Messages /\ Owned /\ Connection /\ Answered
      /\ Unsent /\ AskedOnce /\ Reported /\ Truth /\ Files
  BY DEF IInv
<1>a. /\ toHost # <<>> /\ Head(toHost).method = "generate"
      /\ Head(toHost) \in Requests /\ Head(toHost).id \in Nat
      /\ Head(toHost).place \in Nat \X Nat
  BY <1>0, FirstRequest DEF HostProduces, Asked
<1>b. PICK reply \in Replies : /\ Answers(reply) /\ produced' \in Inventory
                             /\ reply.kind = "ready" /\ reply.inventory = produced'
  BY <1>0, <1>a, ReplyOf, Constants, TransferAssumption, SMTT(30)
  DEF HostProduces, ReplyKinds, Inventory
<1>c. /\ Messages'
      /\ \A n \in DOMAIN toClient' :
           (n \in DOMAIN toClient /\ toClient'[n] = toClient[n]) \/ toClient'[n] = reply
      /\ \A n \in DOMAIN toHost' :
           n + 1 \in DOMAIN toHost /\ toHost'[n] = toHost[n + 1]
      /\ \A n \in Generates' : n \in Nat /\ n + 1 \in Generates /\ n + 1 # 1
  BY <1>0, <1>a, <1>b, AnswersTypes
<1>d. /\ replied' = replied \cup {reply} /\ UNCHANGED answer
  BY <1>b DEF Answers
<1>e. Generates # {} /\ held = "absent" /\ Outcomes = {} /\ Generates' = {}
  <2>1. 1 \in Generates
    BY <1>0, <1>a, FirstRequest DEF Generates
  <2>2. \A n \in Generates' : FALSE
    BY <1>0, <1>c, <2>1 DEF AskedOnce
  <2>3. QED
    BY <1>0, <2>1, <2>2 DEF AskedOnce
<1>1. Scalars'
  BY <1>0
  DEF Scalars, HostProduces, Asked, Answers, attemptVars, channelVars, hostVars,
      fileVars
<1>2. Messages'
  BY <1>c
<1>3. Owned'
  BY <1>0
  DEF Owned, HostProduces, Asked, Answers, attemptVars, channelVars, hostVars,
      fileVars, Scalars
<1>4. Connection'
  BY <1>0
  DEF Connection, Owned, HostProduces, Asked, Answers, attemptVars, channelVars,
      hostVars, fileVars, Scalars
<1>5. Answered'
  BY <1>0
  DEF Answered, Owned, HostProduces, Asked, Answers, attemptVars, channelVars,
      hostVars, fileVars, Scalars
<1>6. Unsent'
  BY <1>0
  DEF Unsent, NothingSent, Owned, HostProduces, Asked, Answers, attemptVars,
      channelVars, hostVars, fileVars, Scalars
<1>7. AskedOnce'
  BY <1>0, <1>a, <1>b, <1>c, <1>d, <1>e
  DEF HostProduces, Answers, AskedOnce, Outcomes, attemptVars
<1>8. Reported'
  BY <1>0, <1>a, <1>b, <1>c, <1>d, <1>e
  DEF HostProduces, Reported, Outcomes
<1>9. Truth'
  BY <1>0, <1>b, <1>d, <1>e
  DEF HostProduces, Reported, Truth, Answers, attemptVars
<1>10. Files'
  BY <1>0, <1>b, <1>e DEF HostProduces, Files, Answers, attemptVars
<1>11. QED
  BY <1>1, <1>2, <1>3, <1>4, <1>5, <1>6, <1>7, <1>8, <1>9, <1>10 DEF IInv

(* The host refuses a request, or sends other bytes. *)
LEMMA HostMisbehavesKeeps ==
  ASSUME IInv, HostMisbehaves
  PROVE  IInv'
<1>0. /\ Scalars /\ Messages /\ Owned /\ Connection /\ Answered
      /\ Unsent /\ AskedOnce /\ Reported /\ Truth /\ Files
  BY DEF IInv
<1>a. /\ toHost # <<>>
      /\ Head(toHost) \in Requests /\ Head(toHost).id \in Nat
      /\ Head(toHost).place \in Nat \X Nat
  BY <1>0, FirstRequest DEF HostMisbehaves, Asked
<1>b. PICK reply \in Replies : /\ Answers(reply) /\ produced' \in Inventory
                             /\ reply.kind \in {"refused", "chunk"}
  <2>0. produced' \in Inventory
    BY <1>0 DEF HostMisbehaves, Messages
  <2>1. CASE Answers(Plain(Head(toHost).id, "refused"))
    BY <1>a, <2>0, <2>1, PlainOf DEF ReplyKinds
  <2>2. CASE \E place \in Whole(produced) :
               Answers(Reply(Head(toHost).id, "chunk", NoManifest,
                             [place |-> place, genuine |-> FALSE]))
    <3>1. PICK place \in Whole(produced) :
            Answers(Reply(Head(toHost).id, "chunk", NoManifest,
                          [place |-> place, genuine |-> FALSE]))
      BY <2>2
    <3>2. place \in Nat \X Nat
      BY <1>0 DEF Whole, Messages, Inventory
    <3>3. [place |-> place, genuine |-> FALSE] \in Chunks
      BY <3>2 DEF Chunks
    <3>4. QED
      BY <1>a, <2>0, <3>1, <3>3, ReplyOf, Constants DEF ReplyKinds
  <2>3. QED
    BY <2>1, <2>2 DEF HostMisbehaves
<1>c. /\ Messages'
      /\ \A n \in DOMAIN toClient' :
           (n \in DOMAIN toClient /\ toClient'[n] = toClient[n]) \/ toClient'[n] = reply
      /\ \A n \in DOMAIN toHost' :
           n + 1 \in DOMAIN toHost /\ toHost'[n] = toHost[n + 1]
      /\ \A n \in Generates' : n \in Nat /\ n + 1 \in Generates /\ n + 1 # 1
  BY <1>0, <1>a, <1>b, AnswersTypes
<1>d. /\ replied' = replied \cup {reply} /\ UNCHANGED answer
  BY <1>b DEF Answers
<1>e. /\ UNCHANGED <<at, resource, nextId, manifest, position, received, hashed>>
      /\ UNCHANGED <<result, release, reported, aborted, current>>
      /\ UNCHANGED <<channel, waiter, answer, linked, held, produced>>
  BY <1>b DEF HostMisbehaves, Answers, attemptVars
<1>1. Scalars'
  BY <1>0, <1>b DEF HostMisbehaves, Scalars, Answers, attemptVars
<1>2. Messages'
  BY <1>c
<1>3. Owned'
  BY <1>0, <1>e DEF Owned
<1>4. Connection'
  BY <1>0
  DEF Connection, Owned, HostMisbehaves, Asked, Answers, attemptVars,
      channelVars, hostVars, fileVars, Scalars
<1>5. Answered'
  BY <1>0
  DEF Answered, Owned, HostMisbehaves, Asked, Answers, attemptVars, channelVars,
      hostVars, fileVars, Scalars
<1>6. Unsent'
  BY <1>0
  DEF Unsent, NothingSent, Owned, HostMisbehaves, Asked, Answers, attemptVars,
      channelVars, hostVars, fileVars, Scalars
<1>7. AskedOnce'
  BY <1>0, <1>a, <1>b, <1>c, <1>d
  DEF HostMisbehaves, Answers, AskedOnce, Outcomes, attemptVars
<1>8. Reported'
  BY <1>0, <1>a, <1>b, <1>c, <1>d
  DEF HostMisbehaves, Reported
<1>9. Truth'
  BY <1>0, <1>b, <1>d DEF HostMisbehaves, Truth, Answers, attemptVars
<1>10. Files'
  BY <1>0, <1>e DEF Files, Places, Before
<1>11. QED
  BY <1>1, <1>2, <1>3, <1>4, <1>5, <1>6, <1>7, <1>8, <1>9, <1>10 DEF IInv

-----------------------------------------------------------------------------
(* The actions of run() and of its cleanup. *)

LEMMA BecomeObsoleteKeeps ==
  ASSUME IInv, BecomeObsolete
  PROVE  IInv'
<1>0. /\ Scalars /\ Messages /\ Owned /\ Connection /\ Answered
      /\ Unsent /\ AskedOnce /\ Reported /\ Truth /\ Files
  BY DEF IInv
<1>1. Scalars'
  BY <1>0 DEF BecomeObsolete, Scalars, attemptVars, channelVars, hostVars
<1>2. Messages'
  BY <1>0
  DEF Messages, BecomeObsolete, attemptVars, channelVars, hostVars, fileVars
<1>3. Owned'
  BY <1>0
  DEF Owned, BecomeObsolete, attemptVars, channelVars, hostVars, fileVars, Scalars
<1>4. Connection'
  BY <1>0
  DEF Connection, Owned, BecomeObsolete, attemptVars, channelVars, hostVars,
      fileVars, Scalars
<1>5. Answered'
  BY <1>0
  DEF Answered, Owned, BecomeObsolete, attemptVars, channelVars, hostVars,
      fileVars, Scalars
<1>6. Unsent'
  BY <1>0
  DEF Unsent, NothingSent, Owned, BecomeObsolete, attemptVars, channelVars,
      hostVars, fileVars, Scalars
<1>7. AskedOnce'
  BY <1>0
  DEF AskedOnce, Generates, Outcomes, Unsent, NothingSent, BecomeObsolete,
      attemptVars, channelVars, hostVars, fileVars, Scalars
<1>8. Reported'
  BY <1>0
  DEF Reported, AskedOnce, Generates, Outcomes, BecomeObsolete, attemptVars,
      channelVars, hostVars, fileVars, Scalars
<1>9. Truth'
  BY <1>0
  DEF Truth, Owned, Unsent, NothingSent, AskedOnce, Generates, Outcomes,
      Reported, BecomeObsolete, attemptVars, channelVars, hostVars, fileVars,
      Scalars
<1>10. Files'
  BY <1>0
  DEF Files, Places, Before, Owned, Reported, Truth, BecomeObsolete, attemptVars,
      channelVars, hostVars, fileVars, Scalars
<1>11. QED
  BY <1>1, <1>2, <1>3, <1>4, <1>5, <1>6, <1>7, <1>8, <1>9, <1>10 DEF IInv

(* cancel() returns what the cleanup came to. *)
LEMMA CancelReturnsKeeps ==
  ASSUME IInv, CancelReturns
  PROVE  IInv'
<1>0. /\ Scalars /\ Messages /\ Owned /\ Connection /\ Answered
      /\ Unsent /\ AskedOnce /\ Reported /\ Truth /\ Files
  BY DEF IInv
<1>a. resource.cleanup \in Cleanups
  BY <1>0, ResourceParts DEF Scalars
<1>1. Scalars'
  BY <1>0, <1>a DEF CancelReturns, Scalars, attemptVars, channelVars, hostVars
<1>2. Messages'
  BY <1>0
  DEF Messages, CancelReturns, attemptVars, channelVars, hostVars, fileVars
<1>3. Owned'
  BY <1>0
  DEF Owned, CancelReturns, attemptVars, channelVars, hostVars, fileVars, Scalars
<1>4. Connection'
  BY <1>0
  DEF Connection, Owned, CancelReturns, attemptVars, channelVars, hostVars,
      fileVars, Scalars
<1>5. Answered'
  BY <1>0, <1>a
  DEF CancelReturns, Answered, Owned, Unsent, Scalars, attemptVars, channelVars,
      hostVars, Waiting, NoCleanup
<1>6. Unsent'
  BY <1>0
  DEF Unsent, NothingSent, Owned, CancelReturns, attemptVars, channelVars,
      hostVars, fileVars, Scalars
<1>7. AskedOnce'
  BY <1>0
  DEF AskedOnce, Generates, Outcomes, Unsent, NothingSent, CancelReturns,
      attemptVars, channelVars, hostVars, fileVars, Scalars
<1>8. Reported'
  BY <1>0
  DEF Reported, AskedOnce, Generates, Outcomes, CancelReturns, attemptVars,
      channelVars, hostVars, fileVars, Scalars
<1>9. Truth'
  BY <1>0
  DEF Truth, Owned, Unsent, NothingSent, AskedOnce, Generates, Outcomes,
      Reported, CancelReturns, attemptVars, channelVars, hostVars, fileVars,
      Scalars
<1>10. Files'
  BY <1>0
  DEF Files, Places, Before, Owned, Reported, Truth, CancelReturns, attemptVars,
      channelVars, hostVars, fileVars, Scalars
<1>11. QED
  BY <1>1, <1>2, <1>3, <1>4, <1>5, <1>6, <1>7, <1>8, <1>9, <1>10 DEF IInv

(* The finally of #exchange: the connection is owned as before. *)
LEMMA RestoreKeeps ==
  ASSUME IInv, Restore
  PROVE  IInv'
<1>0. /\ Scalars /\ Messages /\ Owned /\ Connection /\ Answered
      /\ Unsent /\ AskedOnce /\ Reported /\ Truth /\ Files
  BY DEF IInv
<1>a. /\ resource' \in Resources /\ resource'.known = resource.known
      /\ resource'.kind \in {"retained", "connected"}
      /\ resource'.kind = "retained" <=> resource.known
      /\ resource'.cleanup = NoCleanup /\ resource.cleanup = NoCleanup
      /\ resource.kind = "exchanging" /\ waiter = Nobody
  <2>1. resource.known \in BOOLEAN
    BY <1>0, ResourceParts DEF Scalars
  <2>2. waiter = Nobody
    BY <1>0 DEF Restore, Connection, Owned, Scalars, Owners
  <2>3. CASE resource.known
    BY <1>0, <2>1, <2>2, <2>3, ResourceOf DEF Restore, Kinds, Owned
  <2>4. CASE ~resource.known
    BY <1>0, <2>1, <2>2, <2>4, ResourceOf DEF Restore, Kinds, Owned
  <2>5. QED
    BY <2>3, <2>4
<1>1. Scalars'
  BY <1>0, <1>a DEF Restore, Scalars, fileVars, channelVars, hostVars
<1>2. Messages'
  BY <1>0, <1>a
  DEF Messages, Restore, attemptVars, channelVars, hostVars, fileVars
<1>3. Owned'
  BY <1>0, <1>a DEF Restore, Owned, fileVars, channelVars, hostVars
<1>4. Connection'
  BY <1>0, <1>a DEF Restore, Connection, Nobody, fileVars, channelVars, hostVars
<1>5. Answered'
  BY <1>0, <1>a
  DEF Answered, Owned, Restore, attemptVars, channelVars, hostVars, fileVars,
      Scalars
<1>6. Unsent'
  BY <1>0, <1>a
  DEF Unsent, NothingSent, Owned, Restore, attemptVars, channelVars, hostVars,
      fileVars, Scalars
<1>7. AskedOnce'
  BY <1>0, <1>a
  DEF AskedOnce, Generates, Outcomes, Unsent, NothingSent, Restore, attemptVars,
      channelVars, hostVars, fileVars, Scalars
<1>8. Reported'
  BY <1>0, <1>a
  DEF Reported, AskedOnce, Generates, Outcomes, Restore, attemptVars,
      channelVars, hostVars, fileVars, Scalars
<1>9. Truth'
  BY <1>0, <1>a
  DEF Truth, Owned, Unsent, NothingSent, AskedOnce, Generates, Outcomes,
      Reported, Restore, attemptVars, channelVars, hostVars, fileVars, Scalars
<1>10. Files'
  BY <1>0, <1>a
  DEF Files, Places, Before, Owned, Reported, Truth, Restore, attemptVars,
      channelVars, hostVars, fileVars, Scalars
<1>11. QED
  BY <1>1, <1>2, <1>3, <1>4, <1>5, <1>6, <1>7, <1>8, <1>9, <1>10 DEF IInv

(* run() returns after a failure and its cleanup. *)
LEMMA FinishKeeps ==
  ASSUME IInv, Finish
  PROVE  IInv'
<1>0. /\ Scalars /\ Messages /\ Owned /\ Connection /\ Answered
      /\ Unsent /\ AskedOnce /\ Reported /\ Truth /\ Files
  BY DEF IInv
<1>a. /\ result' \in Results /\ result'.kind \in {"failed", "discarded"}
      /\ result'.cleanup = resource.cleanup
  BY <1>0, ResourceParts, ResultOf DEF Finish, Scalars, ResultKinds
<1>1. Scalars'
  BY <1>0, <1>a DEF Finish, Scalars, Points, fileVars, channelVars, hostVars
<1>2. Messages'
  BY <1>0, <1>a
  DEF Messages, Finish, attemptVars, channelVars, hostVars, fileVars
<1>3. Owned'
  BY <1>0, <1>a
  DEF Owned, Finish, attemptVars, channelVars, hostVars, fileVars, Scalars
<1>4. Connection'
  BY <1>0, <1>a
  DEF Connection, Owned, Finish, attemptVars, channelVars, hostVars, fileVars,
      Scalars
<1>5. Answered'
  BY <1>0, <1>a
  DEF Answered, Owned, Finish, attemptVars, channelVars, hostVars, fileVars,
      Scalars
<1>6. Unsent'
  BY <1>0, <1>a
  DEF Unsent, NothingSent, Owned, Finish, attemptVars, channelVars, hostVars,
      fileVars, Scalars
<1>7. AskedOnce'
  BY <1>0, <1>a
  DEF AskedOnce, Generates, Outcomes, Unsent, NothingSent, Finish, attemptVars,
      channelVars, hostVars, fileVars, Scalars
<1>8. Reported'
  BY <1>0, <1>a
  DEF Reported, AskedOnce, Generates, Outcomes, Finish, attemptVars, channelVars,
      hostVars, fileVars, Scalars
<1>9. Truth'
  BY <1>0, <1>a
  DEF Truth, Owned, Unsent, NothingSent, AskedOnce, Generates, Outcomes,
      Reported, Finish, attemptVars, channelVars, hostVars, fileVars, Scalars
<1>10. Files'
  BY <1>0, <1>a DEF Finish, Files, Places, Before, fileVars, hostVars
<1>11. QED
  BY <1>1, <1>2, <1>3, <1>4, <1>5, <1>6, <1>7, <1>8, <1>9, <1>10 DEF IInv

(* The host sends a reply again, or what is none. *)
LEMMA HostRepeatsKeeps ==
  ASSUME IInv, HostRepeats
  PROVE  IInv'
<1>0. /\ Scalars /\ Messages /\ Owned /\ Connection /\ Answered
      /\ Unsent /\ AskedOnce /\ Reported /\ Truth /\ Files
  BY DEF IInv
<1>a. PICK reply \in replied \cup {Unreadable} : toClient' = Append(toClient, reply)
  BY DEF HostRepeats
<1>b. reply \in Replies
  BY <1>0, <1>a, Constants DEF Messages
<1>c. /\ toClient' \in Seq(Replies)
      /\ \A n \in DOMAIN toClient' :
           (n \in DOMAIN toClient /\ toClient'[n] = toClient[n]) \/ toClient'[n] = reply
  BY <1>0, <1>a, <1>b DEF Messages
<1>1. Scalars'
  BY <1>0, <1>a
  DEF Scalars, HostRepeats, attemptVars, channelVars, hostVars, fileVars
<1>2. Messages'
  BY <1>0, <1>a, <1>b, <1>c DEF HostRepeats, Messages, attemptVars, channelVars
<1>3. Owned'
  BY <1>0, <1>a
  DEF Owned, HostRepeats, attemptVars, channelVars, hostVars, fileVars, Scalars
<1>4. Connection'
  BY <1>0, <1>a
  DEF Connection, Owned, HostRepeats, attemptVars, channelVars, hostVars,
      fileVars, Scalars
<1>5. Answered'
  BY <1>0, <1>a
  DEF Answered, Owned, HostRepeats, attemptVars, channelVars, hostVars, fileVars,
      Scalars
<1>6. Unsent'
  BY <1>0, <1>a
  DEF Unsent, NothingSent, Owned, HostRepeats, attemptVars, channelVars,
      hostVars, fileVars, Scalars
<1>7. AskedOnce'
  BY <1>0, <1>a
  DEF AskedOnce, Generates, Outcomes, Unsent, NothingSent, HostRepeats,
      attemptVars, channelVars, hostVars, fileVars, Scalars
<1>8. Reported'
  BY <1>0, <1>a, <1>b, <1>c
  DEF HostRepeats, Reported, attemptVars, channelVars, Messages
<1>9. Truth'
  BY <1>0, <1>a
  DEF Truth, Owned, Unsent, NothingSent, AskedOnce, Generates, Outcomes,
      Reported, HostRepeats, attemptVars, channelVars, hostVars, fileVars, Scalars
<1>10. Files'
  BY <1>0, <1>a
  DEF Files, Places, Before, Owned, Reported, Truth, HostRepeats, attemptVars,
      channelVars, hostVars, fileVars, Scalars
<1>11. QED
  BY <1>1, <1>2, <1>3, <1>4, <1>5, <1>6, <1>7, <1>8, <1>9, <1>10 DEF IInv

(* The host sees the end of the connection and drops what it held. *)
LEMMA HostSeesEndKeeps ==
  ASSUME IInv, HostSeesEnd
  PROVE  IInv'
<1>0. /\ Scalars /\ Messages /\ Owned /\ Connection /\ Answered
      /\ Unsent /\ AskedOnce /\ Reported /\ Truth /\ Files
  BY DEF IInv
<1>1. Scalars'
  BY <1>0
  DEF Scalars, HostSeesEnd, attemptVars, channelVars, hostVars, fileVars
<1>2. Messages'
  BY <1>0, Constants DEF HostSeesEnd, Messages, attemptVars
<1>3. Owned'
  BY <1>0
  DEF Owned, HostSeesEnd, attemptVars, channelVars, hostVars, fileVars, Scalars
<1>4. Connection'
  BY <1>0
  DEF Connection, Owned, HostSeesEnd, attemptVars, channelVars, hostVars,
      fileVars, Scalars
<1>5. Answered'
  BY <1>0
  DEF Answered, Owned, HostSeesEnd, attemptVars, channelVars, hostVars, fileVars,
      Scalars
<1>6. Unsent'
  BY <1>0
  DEF Unsent, NothingSent, Owned, HostSeesEnd, attemptVars, channelVars,
      hostVars, fileVars, Scalars
<1>7. AskedOnce'
  BY <1>0
  DEF AskedOnce, Generates, Outcomes, Unsent, NothingSent, HostSeesEnd,
      attemptVars, channelVars, hostVars, fileVars, Scalars
<1>8. Reported'
  BY <1>0
  DEF Reported, AskedOnce, Generates, Outcomes, HostSeesEnd, attemptVars,
      channelVars, hostVars, fileVars, Scalars
<1>9. Truth'
  BY <1>0
  DEF Truth, Owned, Unsent, NothingSent, AskedOnce, Generates, Outcomes,
      Reported, HostSeesEnd, attemptVars, channelVars, hostVars, fileVars, Scalars
<1>10. Files'
  BY <1>0
  DEF Files, Places, Before, Owned, Reported, Truth, HostSeesEnd, attemptVars,
      channelVars, hostVars, fileVars, Scalars
<1>11. QED
  BY <1>1, <1>2, <1>3, <1>4, <1>5, <1>6, <1>7, <1>8, <1>9, <1>10 DEF IInv

(* run() opens its connection. *)
LEMMA StartKeeps ==
  ASSUME IInv, Start
  PROVE  IInv'
<1>0. /\ Scalars /\ Messages /\ Owned /\ Connection /\ Answered
      /\ Unsent /\ AskedOnce /\ Reported /\ Truth /\ Files
  BY DEF IInv
<1>1. CASE IsCurrent
  <2>a. /\ at = "captured" /\ at' = "connecting" /\ channel' = "opening"
        /\ channel = "none" /\ waiter = Nobody
        /\ ~aborted /\ resource.kind = "unconnected"
        /\ UNCHANGED <<resource, nextId, fileVars, result, release, waiter, answer,
                       toHost, reported, aborted, current, hostVars>>
    BY <1>0, <1>1, WhileCurrent, Waiters DEF Start, Connection, Owned
  <2>1. Scalars'
    BY <1>0, <2>a, Waiters
    DEF Scalars, fileVars, hostVars, Points
  <2>2. Messages'
    BY <1>0, <2>a, Waiters
    DEF Messages, fileVars, hostVars
  <2>3. Owned'
    BY <1>0, <2>a, Waiters
    DEF Owned, fileVars, hostVars, Scalars
  <2>4. Connection'
    BY <1>0, <2>a, Waiters
    DEF Connection, Owned, fileVars, hostVars, Scalars
  <2>5. Answered'
    BY <1>0, <2>a, Waiters
    DEF Answered, Owned, fileVars, hostVars, Scalars, NotConnected, NoCleanup,
        Waiting
  <2>6. Unsent'
    BY <1>0, <2>a, Waiters
    DEF Unsent, NothingSent, Owned, fileVars, hostVars, Scalars, NotConnected,
        NoCleanup, Waiting
  <2>7. AskedOnce'
    BY <1>0, <2>a, Waiters
    DEF AskedOnce, Generates, Outcomes, Unsent, NothingSent, fileVars, hostVars,
        Scalars
  <2>8. Reported'
    BY <1>0, <2>a, Waiters
    DEF Reported, AskedOnce, Generates, Outcomes, fileVars, hostVars, Scalars
  <2>9. Truth'
    BY <1>0, <2>a, Waiters
    DEF Truth, Owned, Unsent, NothingSent, AskedOnce, Generates, Outcomes,
        Reported, fileVars, hostVars, Scalars, NotConnected, NoCleanup, Waiting
  <2>10. Files'
    BY <1>0, <2>a, Waiters
    DEF Files, Places, Before, Owned, Reported, Truth, fileVars, hostVars, Scalars
  <2>11. QED
    BY <2>1, <2>2, <2>3, <2>4, <2>5, <2>6, <2>7, <2>8, <2>9, <2>10 DEF IInv
<1>2. CASE ~IsCurrent
  <2>1. at = "captured" /\ channel = "none" /\ Fail(resource)
    BY <1>0, <1>2 DEF Start, Connection
  <2>2. MayFail(resource)
    BY <2>1 DEF MayFail
  <2>3. QED
    BY <2>1, <2>2, FailKeeps DEF Start
<1>3. QED
  BY <1>1, <1>2

(* run() resumes from a setup that failed. *)
LEMMA ConnectFailsKeeps ==
  ASSUME IInv, ConnectFails
  PROVE  IInv'
<1>0. /\ Scalars /\ Messages /\ Owned /\ Connection /\ Answered
      /\ Unsent /\ AskedOnce /\ Reported /\ Truth /\ Files
  BY DEF IInv
<1>1. MayFail(resource)
  BY <1>0 DEF ConnectFails, MayFail
<1>2. QED
  BY <1>1, FailKeeps DEF ConnectFails

(* run() resumes from a setup that succeeded. *)
LEMMA ConnectedKeeps ==
  ASSUME IInv, Connected
  PROVE  IInv'
<1>0. /\ Scalars /\ Messages /\ Owned /\ Connection /\ Answered
      /\ Unsent /\ AskedOnce /\ Reported /\ Truth /\ Files
  BY DEF IInv
<1>1. CASE IsCurrent
  <2>a. /\ at = "connecting" /\ channel \in {"open", "closed"}
        /\ ~aborted /\ resource.kind = "unconnected" /\ waiter = Nobody
        /\ reported = NoCleanup /\ release \notin {"queued", "sent"}
        /\ Ask("initializing", FALSE, Request(1, "initialize", <<0, 0>>))
        /\ UNCHANGED <<nextId, fileVars, reported, aborted, current, hostVars>>
    BY <1>0, <1>1, WhileCurrent DEF Connected, Owned
  <2>b. /\ Request(1, "initialize", <<0, 0>>) \in Requests
        /\ Request(1, "initialize", <<0, 0>>).method = "initialize"
    BY RequestOf DEF Methods
  <2>c. /\ at' = "initializing" /\ UNCHANGED <<release, result, channel>>
        /\ resource' \in Resources /\ resource'.kind = "exchanging"
        /\ resource'.known = FALSE /\ resource'.cleanup = NoCleanup
        /\ waiter' \in {waiter, "run"}
        /\ waiter' = "run" => channel = "open"
        /\ waiter' = "run" => answer'["run"] = NoReply
        /\ answer' \in [Owners -> Replies]
        /\ \A other \in Owners :
             answer'[other] \in {answer[other], Rejected, NoReply}
        /\ toHost' \in Seq(Requests)
        /\ \A n \in DOMAIN toHost' :
             \/ n \in DOMAIN toHost /\ toHost'[n] = toHost[n]
             \/ /\ n = Len(toHost) + 1
                /\ toHost'[n] = Request(1, "initialize", <<0, 0>>)
    BY <1>0, <2>a, <2>b, Asking, Waiters
  <2>1. Scalars'
    BY <1>0, <2>a, <2>b, <2>c, Waiters
    DEF Scalars, fileVars, hostVars, Points
  <2>2. Messages'
    BY <1>0, <2>a, <2>b, <2>c, Waiters
    DEF Messages, fileVars, hostVars
  <2>3. Owned'
    BY <1>0, <2>a, <2>b, <2>c, Waiters
    DEF Owned, fileVars, hostVars, Scalars
  <2>4. Connection'
    BY <1>0, <2>a, <2>b, <2>c, Waiters
    DEF Connection, Owned, fileVars, hostVars, Scalars
  <2>5. Answered'
    BY <1>0, <2>a, <2>b, <2>c, Waiters
    DEF Answered, Owned, fileVars, hostVars, Scalars, NotConnected, NoCleanup,
        Waiting
  <2>6. Unsent'
    BY <1>0, <2>a, <2>b, <2>c, Waiters
    DEF Unsent, NothingSent, Owned, fileVars, hostVars, Scalars, NotConnected,
        NoCleanup, Waiting
  <2>7. AskedOnce'
    BY <1>0, <2>a, <2>b, <2>c, Waiters
    DEF AskedOnce, Generates, Outcomes, Unsent, NothingSent, fileVars, hostVars,
        Scalars
  <2>8. Reported'
    BY <1>0, <2>a, <2>b, <2>c, Waiters
    DEF Reported, AskedOnce, Generates, Outcomes, fileVars, hostVars, Scalars
  <2>9. Truth'
    BY <1>0, <2>a, <2>b, <2>c, Waiters
    DEF Truth, Owned, Unsent, NothingSent, AskedOnce, Generates, Outcomes,
        Reported, fileVars, hostVars, Scalars, NotConnected, NoCleanup, Waiting
  <2>10. Files'
    BY <1>0, <2>a, <2>b, <2>c, Waiters
    DEF Files, Places, Before, Owned, Reported, Truth, fileVars, hostVars, Scalars
  <2>11. QED
    BY <2>1, <2>2, <2>3, <2>4, <2>5, <2>6, <2>7, <2>8, <2>9, <2>10 DEF IInv
<1>2. CASE ~IsCurrent
  <2>1. MayFail(Resource("connected", FALSE))
    BY ResourceOf DEF Connected, MayFail, Kinds
  <2>2. QED
    BY <1>2, <2>1, FailKeeps DEF Connected
<1>3. QED
  BY <1>1, <1>2

(* run() resumes from its initialization. *)
LEMMA InitializedKeeps ==
  ASSUME IInv, Initialized
  PROVE  IInv'
<1>0. /\ Scalars /\ Messages /\ Owned /\ Connection /\ Answered
      /\ Unsent /\ AskedOnce /\ Reported /\ Truth /\ Files
  BY DEF IInv
<1>1. CASE Ask("generating", FALSE, Request(2, "generate", <<0, 0>>)) /\ IsCurrent
            /\ UNCHANGED <<nextId, fileVars>>
  <2>a. /\ at = "initializing" /\ resource.kind = "connected" /\ waiter = Nobody
        /\ ~aborted /\ reported = NoCleanup /\ release \notin {"queued", "sent"}
        /\ channel # "opening" /\ channel # "none"
        /\ Ask("generating", FALSE, Request(2, "generate", <<0, 0>>))
        /\ UNCHANGED <<nextId, fileVars, reported, aborted, current, hostVars>>
    BY <1>0, <1>1, WhileCurrent DEF Initialized, Resumes, Owned, Connection
  <2>b. /\ Request(2, "generate", <<0, 0>>) \in Requests
        /\ Request(2, "generate", <<0, 0>>).method = "generate"
    BY RequestOf DEF Methods
  <2>c. /\ at' = "generating" /\ UNCHANGED <<release, result, channel>>
        /\ resource' \in Resources /\ resource'.kind = "exchanging"
        /\ resource'.known = FALSE /\ resource'.cleanup = NoCleanup
        /\ waiter' \in {waiter, "run"}
        /\ waiter' = "run" => channel = "open"
        /\ waiter' = "run" => answer'["run"] = NoReply
        /\ answer' \in [Owners -> Replies]
        /\ \A other \in Owners :
             answer'[other] \in {answer[other], Rejected, NoReply}
        /\ toHost' \in Seq(Requests)
        /\ \A n \in DOMAIN toHost' :
             \/ n \in DOMAIN toHost /\ toHost'[n] = toHost[n]
             \/ /\ n = Len(toHost) + 1
                /\ toHost'[n] = Request(2, "generate", <<0, 0>>)
    BY <1>0, <2>a, <2>b, Asking, Waiters
  <2>1. Scalars'
    BY <1>0, <2>a, <2>b, <2>c, Waiters
    DEF Scalars, fileVars, hostVars, Points
  <2>2. Messages'
    BY <1>0, <2>a, <2>b, <2>c, Waiters
    DEF Messages, fileVars, hostVars
  <2>3. Owned'
    BY <1>0, <2>a, <2>b, <2>c, Waiters
    DEF Owned, fileVars, hostVars, Scalars
  <2>4. Connection'
    BY <1>0, <2>a, <2>b, <2>c, Waiters
    DEF Connection, Owned, fileVars, hostVars, Scalars
  <2>5. Answered'
    BY <1>0, <2>a, <2>b, <2>c, Waiters
    DEF Answered, Owned, fileVars, hostVars, Scalars, NotConnected, NoCleanup,
        Waiting
  <2>6. Unsent'
    BY <1>0, <2>a, <2>b, <2>c, Waiters
    DEF Unsent, NothingSent, Owned, fileVars, hostVars, Scalars, NotConnected,
        NoCleanup, Waiting
  <2>7. AskedOnce'
    BY <1>0, <2>a, <2>b, <2>c, Waiters
    DEF AskedOnce, Generates, Outcomes, Unsent, NothingSent, fileVars, hostVars,
        Scalars
  <2>8. Reported'
    BY <1>0, <2>a, <2>b, <2>c, Waiters
    DEF Reported, AskedOnce, Generates, Outcomes, fileVars, hostVars, Scalars
  <2>9. Truth'
    BY <1>0, <2>a, <2>b, <2>c, Waiters
    DEF Truth, Owned, Unsent, NothingSent, AskedOnce, Generates, Outcomes,
        Reported, fileVars, hostVars, Scalars, NotConnected, NoCleanup, Waiting
  <2>10. Files'
    BY <1>0, <2>a, <2>b, <2>c, Waiters
    DEF Files, Places, Before, Owned, Reported, Truth, fileVars, hostVars, Scalars
  <2>11. QED
    BY <2>1, <2>2, <2>3, <2>4, <2>5, <2>6, <2>7, <2>8, <2>9, <2>10 DEF IInv
<1>2. CASE Fail(resource)
  BY <1>2, MayFailHere, FailKeeps DEF Initialized, Resumes
<1>3. QED
  BY <1>1, <1>2 DEF Initialized

(* A digest is compared. *)
LEMMA HashKeeps ==
  ASSUME IInv, Hash
  PROVE  IInv'
<1>0. /\ Scalars /\ Messages /\ Owned /\ Connection /\ Answered
      /\ Unsent /\ AskedOnce /\ Reported /\ Truth /\ Files
  BY DEF IInv
<1>1. CASE /\ IsCurrent /\ Genuine(hashed + 1) /\ hashed' = hashed + 1
            /\ UNCHANGED <<at, resource, nextId, manifest, position, received,
                           result, release, channelVars>>
  <2>a. at = "verifying" /\ hashed < Len(manifest)
        /\ UNCHANGED <<reported, aborted, current, hostVars>>
    BY DEF Hash
  <2>1. Scalars'
    BY <1>0, <1>1, <2>a, Waiters
    DEF Scalars, channelVars, hostVars, Points
  <2>2. Messages'
    BY <1>0, <1>1, <2>a, Waiters
    DEF Messages, channelVars, hostVars
  <2>3. Owned'
    BY <1>0, <1>1, <2>a, Waiters
    DEF Owned, channelVars, hostVars, Scalars
  <2>4. Connection'
    BY <1>0, <1>1, <2>a, Waiters
    DEF Connection, Owned, channelVars, hostVars, Scalars
  <2>5. Answered'
    BY <1>0, <1>1, <2>a, Waiters
    DEF Answered, Owned, channelVars, hostVars, Scalars, NotConnected, NoCleanup,
        Waiting
  <2>6. Unsent'
    BY <1>0, <1>1, <2>a, Waiters
    DEF Unsent, NothingSent, Owned, channelVars, hostVars, Scalars, NotConnected,
        NoCleanup, Waiting
  <2>7. AskedOnce'
    BY <1>0, <1>1, <2>a, Waiters
    DEF AskedOnce, Generates, Outcomes, Unsent, NothingSent, channelVars,
        hostVars, Scalars
  <2>8. Reported'
    BY <1>0, <1>1, <2>a, Waiters
    DEF Reported, AskedOnce, Generates, Outcomes, channelVars, hostVars, Scalars
  <2>9. Truth'
    BY <1>0, <1>1, <2>a, Waiters
    DEF Truth, Owned, Unsent, NothingSent, AskedOnce, Generates, Outcomes,
        Reported, channelVars, hostVars, Scalars, NotConnected, NoCleanup, Waiting
  <2>10. Files'
    BY <1>0, <1>1, <2>a, Waiters
    DEF Files, Places, Before, Owned, Reported, Truth, channelVars, hostVars,
        Scalars, Genuine, Messages, Chunks, Inventory
  <2>11. QED
    BY <2>1, <2>2, <2>3, <2>4, <2>5, <2>6, <2>7, <2>8, <2>9, <2>10 DEF IInv
<1>2. CASE Fail(resource)
  BY <1>2, MayFailHere, FailKeeps DEF Hash
<1>3. QED
  BY <1>1, <1>2 DEF Hash

(* run() returns the files, or fails because they were not released. *)
LEMMA PublishKeeps ==
  ASSUME IInv, Publish
  PROVE  IInv'
<1>0. /\ Scalars /\ Messages /\ Owned /\ Connection /\ Answered
      /\ Unsent /\ AskedOnce /\ Reported /\ Truth /\ Files
  BY DEF IInv
<1>1. CASE /\ IsCurrent /\ resource.cleanup.kind = "released"
            /\ result' = Returned("verified", resource.cleanup)
            /\ at' = "finished"
            /\ UNCHANGED <<nextId, resource, fileVars, release, channelVars>>
  <2>a. /\ at = "publishing" /\ resource.kind = "closed"
        /\ result' \in Results /\ result'.kind = "verified"
        /\ result'.cleanup = resource.cleanup
        /\ UNCHANGED <<reported, aborted, current, hostVars>>
    BY <1>0, <1>1, ResultOf, ResourceParts DEF Publish, Scalars, ResultKinds
  <2>1. Scalars'
    BY <1>0, <1>1, <2>a, Waiters
    DEF Scalars, fileVars, channelVars, hostVars, Points
  <2>2. Messages'
    BY <1>0, <1>1, <2>a, Waiters
    DEF Messages, fileVars, channelVars, hostVars
  <2>3. Owned'
    BY <1>0, <1>1, <2>a, Waiters
    DEF Owned, fileVars, channelVars, hostVars, Scalars
  <2>4. Connection'
    BY <1>0, <1>1, <2>a, Waiters
    DEF Connection, Owned, fileVars, channelVars, hostVars, Scalars
  <2>5. Answered'
    BY <1>0, <1>1, <2>a, Waiters
    DEF Answered, Owned, fileVars, channelVars, hostVars, Scalars, NotConnected,
        NoCleanup, Waiting
  <2>6. Unsent'
    BY <1>0, <1>1, <2>a, Waiters
    DEF Unsent, NothingSent, Owned, fileVars, channelVars, hostVars, Scalars,
        NotConnected, NoCleanup, Waiting
  <2>7. AskedOnce'
    BY <1>0, <1>1, <2>a, Waiters
    DEF AskedOnce, Generates, Outcomes, Unsent, NothingSent, fileVars,
        channelVars, hostVars, Scalars
  <2>8. Reported'
    BY <1>0, <1>1, <2>a, Waiters
    DEF Reported, AskedOnce, Generates, Outcomes, fileVars, channelVars,
        hostVars, Scalars
  <2>9. Truth'
    BY <1>0, <1>1, <2>a, Waiters
    DEF Truth, Owned, Unsent, NothingSent, AskedOnce, Generates, Outcomes,
        Reported, fileVars, channelVars, hostVars, Scalars, NotConnected,
        NoCleanup, Waiting
  <2>10. Files'
    BY <1>0, <1>1, <2>a, Waiters
    DEF Files, Places, Before, Owned, Reported, Truth, fileVars, channelVars,
        hostVars, Scalars
  <2>11. QED
    BY <2>1, <2>2, <2>3, <2>4, <2>5, <2>6, <2>7, <2>8, <2>9, <2>10 DEF IInv
<1>2. CASE Fail(resource)
  BY <1>2, MayFailHere, FailKeeps DEF Publish
<1>3. QED
  BY <1>1, <1>2 DEF Publish

(* The files are verified, and the cleanup starts. *)
LEMMA VerifiedKeeps ==
  ASSUME IInv, Verified
  PROVE  IInv'
<1>0. /\ Scalars /\ Messages /\ Owned /\ Connection /\ Answered
      /\ Unsent /\ AskedOnce /\ Reported /\ Truth /\ Files
  BY DEF IInv
<1>1. CASE /\ IsCurrent /\ at' = "publishing" /\ Cleanup(resource)
            /\ UNCHANGED <<nextId, fileVars, result, toHost>>
  <2>1. /\ at = "verifying" /\ hashed = Len(manifest)
        /\ UNCHANGED <<reported, aborted, current, hostVars>>
        /\ ~aborted /\ reported = NoCleanup /\ release \notin {"queued", "sent"}
        /\ resource.kind \in {"connected", "retained", "exchanging"}
        /\ resource.kind # "exchanging" => waiter = Nobody
        /\ channel \notin {"opening", "none"}
    BY <1>0, <1>1, WhileCurrent DEF Verified, Owned, Connection
  <2>2. received = {[place |-> place, genuine |-> TRUE] : place \in Whole(produced)}
    <3>1. /\ manifest = produced /\ Places = Whole(manifest)
          /\ \A chunk \in received : chunk.place[1] <= hashed => chunk.genuine
          /\ received \subseteq Chunks
      BY <1>0, <2>1 DEF Files, Messages
    <3>2. \A place \in Whole(manifest) : place[1] <= Len(manifest)
      BY <1>0 DEF Whole, Messages, Inventory
    <3>3. \A chunk \in received :
            /\ chunk = [place |-> chunk.place, genuine |-> TRUE]
            /\ chunk.place \in Whole(produced)
      BY <2>1, <3>1, <3>2 DEF Places, Chunks
    <3>4. \A place \in Whole(produced) :
            [place |-> place, genuine |-> TRUE] \in received
      <4>1. TAKE place \in Whole(produced)
      <4>2. PICK chunk \in received : chunk.place = place
        BY <3>1 DEF Places
      <4>3. QED
        BY <3>3, <4>2
    <3>5. QED
      BY <3>3, <3>4
  <2>3. /\ at' = "publishing" /\ UNCHANGED <<nextId, fileVars, result, toHost>>
    BY <1>1
  <2>4. CASE ToRelease(resource)
    <3>a. /\ resource' \in Resources /\ resource'.kind = "releasing"
          /\ resource'.known /\ resource'.cleanup = NoCleanup
          /\ release' = "queued" /\ resource.known /\ resource.kind = "retained"
          /\ UNCHANGED <<channel, waiter, answer>> /\ channel = "open"
      BY <1>0, <2>4, ResourceOf DEF ToRelease, Kinds, Owned
    <3>1. Scalars'
      BY <1>0, <2>1, <2>2, <2>3, <3>a, Waiters
      DEF Scalars, fileVars, hostVars, Points
    <3>2. Messages'
      BY <1>0, <2>1, <2>2, <2>3, <3>a, Waiters
      DEF Messages, fileVars, hostVars
    <3>3. Owned'
      BY <1>0, <2>1, <2>2, <2>3, <3>a, Waiters
      DEF Owned, fileVars, hostVars, Scalars
    <3>4. Connection'
      BY <1>0, <2>1, <2>2, <2>3, <3>a, Waiters
      DEF Connection, Owned, fileVars, hostVars, Scalars
    <3>5. Answered'
      BY <1>0, <2>1, <2>2, <2>3, <3>a, Waiters
      DEF Answered, Owned, fileVars, hostVars, Scalars, NotConnected, NoCleanup,
          Waiting
    <3>6. Unsent'
      BY <1>0, <2>1, <2>2, <2>3, <3>a, Waiters
      DEF Unsent, NothingSent, Owned, fileVars, hostVars, Scalars, NotConnected,
          NoCleanup, Waiting
    <3>7. AskedOnce'
      BY <1>0, <2>1, <2>2, <2>3, <3>a, Waiters
      DEF AskedOnce, Generates, Outcomes, Unsent, NothingSent, fileVars,
          hostVars, Scalars
    <3>8. Reported'
      BY <1>0, <2>1, <2>2, <2>3, <3>a, Waiters
      DEF Reported, AskedOnce, Generates, Outcomes, fileVars, hostVars, Scalars
    <3>9. Truth'
      BY <1>0, <2>1, <2>2, <2>3, <3>a, Waiters
      DEF Truth, Owned, Unsent, NothingSent, AskedOnce, Generates, Outcomes,
          Reported, fileVars, hostVars, Scalars, NotConnected, NoCleanup, Waiting
    <3>10. Files'
      BY <1>0, <2>1, <2>2, <2>3, <3>a, Waiters
      DEF Files, Places, Before, Owned, Reported, Truth, fileVars, hostVars,
          Scalars
    <3>11. QED
      BY <3>1, <3>2, <3>3, <3>4, <3>5, <3>6, <3>7, <3>8, <3>9, <3>10 DEF IInv
  <2>5. CASE GivenUp(resource)
    <3>z. PICK reason \in {"pending-exchange", "unknown-retention"} :
            resource' = Ended(Closed(reason, resource.known))
      BY <2>5 DEF GivenUp
    <3>a. /\ resource' \in Resources /\ resource'.kind = "closed"
          /\ resource'.known = resource.known
          /\ resource'.cleanup.kind = reason
          /\ resource'.cleanup.known = resource.known
      <4>1. Closed(reason, resource.known) \in Cleanups
        BY <1>0, ResourceParts DEF Scalars, Cleanups, CleanupKinds, Closed
      <4>2. QED
        BY <3>z, <4>1, EndedOf DEF Closed
    <3>b. /\ channel' = IF channel = "open" THEN "closed" ELSE channel
          /\ waiter' = Nobody /\ release' = release
          /\ answer' \in [Owners -> Replies]
          /\ \A owner \in Owners : answer'[owner] \in {answer[owner], Rejected}
      BY <1>0, <2>5, Closing DEF GivenUp
    <3>1. Scalars'
      BY <1>0, <2>1, <2>2, <2>3, <3>a, <3>b, Waiters
      DEF Scalars, fileVars, hostVars, Points
    <3>2. Messages'
      BY <1>0, <2>1, <2>2, <2>3, <3>a, <3>b, Waiters
      DEF Messages, fileVars, hostVars
    <3>3. Owned'
      BY <1>0, <2>1, <2>2, <2>3, <3>a, <3>b, Waiters
      DEF Owned, fileVars, hostVars, Scalars
    <3>4. Connection'
      BY <1>0, <2>1, <2>2, <2>3, <3>a, <3>b, Waiters
      DEF Connection, Owned, fileVars, hostVars, Scalars
    <3>5. Answered'
      BY <1>0, <2>1, <2>2, <2>3, <3>a, <3>b, Waiters
      DEF Answered, Owned, fileVars, hostVars, Scalars, NotConnected, NoCleanup,
          Waiting
    <3>6. Unsent'
      BY <1>0, <2>1, <2>2, <2>3, <3>a, <3>b, Waiters
      DEF Unsent, NothingSent, Owned, fileVars, hostVars, Scalars, NotConnected,
          NoCleanup, Waiting
    <3>7. AskedOnce'
      BY <1>0, <2>1, <2>2, <2>3, <3>a, <3>b, Waiters
      DEF AskedOnce, Generates, Outcomes, Unsent, NothingSent, fileVars,
          hostVars, Scalars
    <3>8. Reported'
      BY <1>0, <2>1, <2>2, <2>3, <3>a, <3>b, Waiters
      DEF Reported, AskedOnce, Generates, Outcomes, fileVars, hostVars, Scalars
    <3>9. Truth'
      BY <1>0, <2>1, <2>2, <2>3, <3>a, <3>b, Waiters
      DEF Truth, Owned, Unsent, NothingSent, AskedOnce, Generates, Outcomes,
          Reported, fileVars, hostVars, Scalars, NotConnected, NoCleanup, Waiting
    <3>10. Files'
      BY <1>0, <2>1, <2>2, <2>3, <3>a, <3>b, Waiters
      DEF Files, Places, Before, Owned, Reported, Truth, fileVars, hostVars,
          Scalars
    <3>11. QED
      BY <3>1, <3>2, <3>3, <3>4, <3>5, <3>6, <3>7, <3>8, <3>9, <3>10 DEF IInv
  <2>6. QED
    BY <1>0, <1>1, <2>1, <2>4, <2>5, CleanupCases
    DEF Scalars, LeftToOwner, NeverOwned
<1>2. CASE Fail(resource)
  BY <1>2, MayFailHere, FailKeeps DEF Verified
<1>3. QED
  BY <1>1, <1>2 DEF Verified

(* cancel(), whatever run() is waiting for. *)
LEMMA CancelKeeps ==
  ASSUME IInv, Cancel
  PROVE  IInv'
<1>0. /\ Scalars /\ Messages /\ Owned /\ Connection /\ Answered
      /\ Unsent /\ AskedOnce /\ Reported /\ Truth /\ Files
  BY DEF IInv
<1>a. /\ ~aborted /\ aborted' /\ reported = NoCleanup
      /\ reported' = (IF resource'.kind = "closed" THEN resource'.cleanup ELSE Waiting)
      /\ UNCHANGED <<at, nextId, manifest, position, received, hashed, result,
                     current, toHost, hostVars>>
  BY <1>0 DEF Cancel, Answered
<1>b. resource' \in Resources => reported' \in Cleanups
  BY <1>a, ResourceParts, CleanupValues
<1>i. CASE channel = "opening"
  <2>a. /\ channel' = "refused" /\ UNCHANGED <<release, waiter, answer>>
        /\ resource' \in Resources /\ resource'.kind = "closed"
        /\ ~resource'.known /\ resource'.cleanup = NotConnected
        /\ at = "connecting" /\ resource.kind = "unconnected"
    BY <1>0, <1>i, EndedOf, CleanupValues DEF Cancel, Connection, NotConnected
  <2>1. Scalars'
    BY <1>0, <1>a, <1>b, <1>i, <2>a, Waiters
    DEF Scalars, hostVars, Points
  <2>2. Messages'
    BY <1>0, <1>a, <1>b, <1>i, <2>a, Waiters
    DEF Messages, hostVars
  <2>3. Owned'
    BY <1>0, <1>a, <1>b, <1>i, <2>a, Waiters
    DEF Owned, hostVars, Scalars
  <2>4. Connection'
    BY <1>0, <1>a, <1>b, <1>i, <2>a, Waiters
    DEF Connection, Owned, hostVars, Scalars
  <2>5. Answered'
    BY <1>0, <1>a, <1>b, <1>i, <2>a, Waiters
    DEF Answered, Owned, hostVars, Scalars, NotConnected, NoCleanup, Waiting
  <2>6. Unsent'
    BY <1>0, <1>a, <1>b, <1>i, <2>a, Waiters
    DEF Unsent, NothingSent, Owned, hostVars, Scalars, NotConnected, NoCleanup,
        Waiting
  <2>7. AskedOnce'
    BY <1>0, <1>a, <1>b, <1>i, <2>a, Waiters
    DEF AskedOnce, Generates, Outcomes, Unsent, NothingSent, hostVars, Scalars
  <2>8. Reported'
    BY <1>0, <1>a, <1>b, <1>i, <2>a, Waiters
    DEF Reported, AskedOnce, Generates, Outcomes, hostVars, Scalars
  <2>9. Truth'
    BY <1>0, <1>a, <1>b, <1>i, <2>a, Waiters
    DEF Truth, Owned, Unsent, NothingSent, AskedOnce, Generates, Outcomes,
        Reported, hostVars, Scalars, NotConnected, NoCleanup, Waiting
  <2>10. Files'
    BY <1>0, <1>a, <1>b, <1>i, <2>a, Waiters
    DEF Files, Places, Before, Owned, Reported, Truth, hostVars, Scalars
  <2>11. QED
    BY <2>1, <2>2, <2>3, <2>4, <2>5, <2>6, <2>7, <2>8, <2>9, <2>10 DEF IInv
<1>j. CASE Cleanup(resource) /\ channel # "opening"
  <2>d. CASE LeftToOwner(resource)
    <3>1. Scalars'
      BY <1>0, <1>a, <1>b, <1>j, <2>d, Waiters
      DEF Scalars, hostVars, LeftToOwner, Points
    <3>2. Messages'
      BY <1>0, <1>a, <1>b, <1>j, <2>d, Waiters
      DEF Messages, hostVars, LeftToOwner
    <3>3. Owned'
      BY <1>0, <1>a, <1>b, <1>j, <2>d, Waiters
      DEF Owned, hostVars, LeftToOwner, Scalars
    <3>4. Connection'
      BY <1>0, <1>a, <1>b, <1>j, <2>d, Waiters
      DEF Connection, Owned, hostVars, LeftToOwner, Scalars
    <3>5. Answered'
      BY <1>0, <1>a, <1>b, <1>j, <2>d, Waiters
      DEF Answered, Owned, hostVars, LeftToOwner, Scalars, NotConnected,
          NoCleanup, Waiting, Unsent, NothingSent
    <3>6. Unsent'
      BY <1>0, <1>a, <1>b, <1>j, <2>d, Waiters
      DEF Unsent, NothingSent, Owned, hostVars, LeftToOwner, Scalars,
          NotConnected, NoCleanup, Waiting
    <3>7. AskedOnce'
      BY <1>0, <1>a, <1>b, <1>j, <2>d, Waiters
      DEF AskedOnce, Generates, Outcomes, Unsent, NothingSent, hostVars,
          LeftToOwner, Scalars
    <3>8. Reported'
      BY <1>0, <1>a, <1>b, <1>j, <2>d, Waiters
      DEF Reported, AskedOnce, Generates, Outcomes, hostVars, LeftToOwner, Scalars
    <3>9. Truth'
      BY <1>0, <1>a, <1>b, <1>j, <2>d, Waiters
      DEF Truth, Owned, Unsent, NothingSent, AskedOnce, Generates, Outcomes,
          Reported, hostVars, LeftToOwner, Scalars, NotConnected, NoCleanup,
          Waiting
    <3>10. Files'
      BY <1>0, <1>a, <1>b, <1>j, <2>d, Waiters
      DEF Files, Places, Before, Owned, Reported, Truth, hostVars, LeftToOwner,
          Scalars
    <3>11. QED
      BY <3>1, <3>2, <3>3, <3>4, <3>5, <3>6, <3>7, <3>8, <3>9, <3>10 DEF IInv
  <2>e. CASE ToRelease(resource)
    <3>a. /\ resource' \in Resources /\ resource'.kind = "releasing"
          /\ resource'.known /\ resource'.cleanup = NoCleanup
          /\ release' = "queued" /\ resource.kind = "retained" /\ channel = "open"
          /\ UNCHANGED <<channel, waiter, answer>> /\ resource.known
      BY <1>0, <2>e, ResourceOf DEF ToRelease, Kinds, Owned
    <3>1. Scalars'
      BY <1>0, <1>a, <1>b, <1>j, <2>e, <3>a, Waiters
      DEF Scalars, hostVars, Points
    <3>2. Messages'
      BY <1>0, <1>a, <1>b, <1>j, <2>e, <3>a, Waiters
      DEF Messages, hostVars
    <3>3. Owned'
      BY <1>0, <1>a, <1>b, <1>j, <2>e, <3>a, Waiters
      DEF Owned, hostVars, Scalars
    <3>4. Connection'
      BY <1>0, <1>a, <1>b, <1>j, <2>e, <3>a, Waiters
      DEF Connection, Owned, hostVars, Scalars
    <3>5. Answered'
      BY <1>0, <1>a, <1>b, <1>j, <2>e, <3>a, Waiters
      DEF Answered, Owned, hostVars, Scalars, NotConnected, NoCleanup, Waiting,
          Unsent, NothingSent
    <3>6. Unsent'
      BY <1>0, <1>a, <1>b, <1>j, <2>e, <3>a, Waiters
      DEF Unsent, NothingSent, Owned, hostVars, Scalars, NotConnected, NoCleanup,
          Waiting
    <3>7. AskedOnce'
      BY <1>0, <1>a, <1>b, <1>j, <2>e, <3>a, Waiters
      DEF AskedOnce, Generates, Outcomes, Unsent, NothingSent, hostVars, Scalars
    <3>8. Reported'
      BY <1>0, <1>a, <1>b, <1>j, <2>e, <3>a, Waiters
      DEF Reported, AskedOnce, Generates, Outcomes, hostVars, Scalars
    <3>9. Truth'
      BY <1>0, <1>a, <1>b, <1>j, <2>e, <3>a, Waiters
      DEF Truth, Owned, Unsent, NothingSent, AskedOnce, Generates, Outcomes,
          Reported, hostVars, Scalars, NotConnected, NoCleanup, Waiting
    <3>10. Files'
      BY <1>0, <1>a, <1>b, <1>j, <2>e, <3>a, Waiters
      DEF Files, Places, Before, Owned, Reported, Truth, hostVars, Scalars
    <3>11. QED
      BY <3>1, <3>2, <3>3, <3>4, <3>5, <3>6, <3>7, <3>8, <3>9, <3>10 DEF IInv
  <2>f. CASE NeverOwned(resource)
    <3>a. /\ resource' \in Resources /\ resource'.kind = "closed"
          /\ ~resource'.known /\ resource'.cleanup = NotConnected
          /\ resource.kind = "unconnected"
          /\ UNCHANGED <<release, channel, waiter, answer>>
      BY <2>f, EndedOf, CleanupValues DEF NeverOwned, NotConnected
    <3>1. Scalars'
      BY <1>0, <1>a, <1>b, <1>j, <2>f, <3>a, Waiters
      DEF Scalars, hostVars, Points
    <3>2. Messages'
      BY <1>0, <1>a, <1>b, <1>j, <2>f, <3>a, Waiters
      DEF Messages, hostVars
    <3>3. Owned'
      BY <1>0, <1>a, <1>b, <1>j, <2>f, <3>a, Waiters
      DEF Owned, hostVars, Scalars
    <3>4. Connection'
      BY <1>0, <1>a, <1>b, <1>j, <2>f, <3>a, Waiters
      DEF Connection, Owned, hostVars, Scalars
    <3>5. Answered'
      BY <1>0, <1>a, <1>b, <1>j, <2>f, <3>a, Waiters
      DEF Answered, Owned, hostVars, Scalars, NotConnected, NoCleanup, Waiting,
          Unsent, NothingSent
    <3>6. Unsent'
      BY <1>0, <1>a, <1>b, <1>j, <2>f, <3>a, Waiters
      DEF Unsent, NothingSent, Owned, hostVars, Scalars, NotConnected, NoCleanup,
          Waiting
    <3>7. AskedOnce'
      BY <1>0, <1>a, <1>b, <1>j, <2>f, <3>a, Waiters
      DEF AskedOnce, Generates, Outcomes, Unsent, NothingSent, hostVars, Scalars
    <3>8. Reported'
      BY <1>0, <1>a, <1>b, <1>j, <2>f, <3>a, Waiters
      DEF Reported, AskedOnce, Generates, Outcomes, hostVars, Scalars
    <3>9. Truth'
      BY <1>0, <1>a, <1>b, <1>j, <2>f, <3>a, Waiters
      DEF Truth, Owned, Unsent, NothingSent, AskedOnce, Generates, Outcomes,
          Reported, hostVars, Scalars, NotConnected, NoCleanup, Waiting
    <3>10. Files'
      BY <1>0, <1>a, <1>b, <1>j, <2>f, <3>a, Waiters
      DEF Files, Places, Before, Owned, Reported, Truth, hostVars, Scalars
    <3>11. QED
      BY <3>1, <3>2, <3>3, <3>4, <3>5, <3>6, <3>7, <3>8, <3>9, <3>10 DEF IInv
  <2>g. CASE GivenUp(resource)
    <3>z. PICK reason \in {"pending-exchange", "unknown-retention"} :
            resource' = Ended(Closed(reason, resource.known))
      BY <2>g DEF GivenUp
    <3>y. resource.known \in BOOLEAN
      BY <1>0, ResourceParts DEF Scalars
    <3>a. /\ resource' \in Resources /\ resource'.kind = "closed"
          /\ resource'.known = resource.known
          /\ resource'.cleanup = Closed(reason, resource.known)
          /\ resource'.cleanup \in Cleanups
          /\ resource'.cleanup.kind = reason
          /\ resource'.cleanup.known = resource.known
      <4>1. Closed(reason, resource.known) \in Cleanups
        BY <3>y DEF Cleanups, CleanupKinds, Closed
      <4>2. QED
        BY <3>z, <4>1, EndedOf DEF Closed
    <3>b. /\ channel' = IF channel = "open" THEN "closed" ELSE channel
          /\ waiter' = Nobody /\ release' = release
          /\ answer' \in [Owners -> Replies]
          /\ \A owner \in Owners : answer'[owner] \in {answer[owner], Rejected}
      BY <1>0, <2>g, Closing DEF GivenUp
    <3>c. resource.kind \in {"connected", "exchanging", "retained"}
      BY <2>g DEF GivenUp
    <3>1. Scalars'
      BY <1>0, <1>a, <1>b, <1>j, <2>g, <3>a, <3>b, <3>c, Waiters
      DEF Scalars, hostVars, Points
    <3>2. Messages'
      BY <1>0, <1>a, <1>b, <1>j, <2>g, <3>a, <3>b, <3>c, Waiters
      DEF Messages, hostVars
    <3>3. Owned'
      BY <1>0, <1>a, <1>b, <1>j, <2>g, <3>a, <3>b, <3>c, Waiters
      DEF Owned, hostVars, Scalars
    <3>4. Connection'
      BY <1>0, <1>a, <1>b, <1>j, <2>g, <3>a, <3>b, <3>c, Waiters
      DEF Connection, Owned, hostVars, Scalars
    <3>5. Answered'
      BY <1>0, <1>a, <1>b, <1>j, <2>g, <3>a, <3>b, <3>c, Waiters
      DEF Answered, Owned, hostVars, Scalars, NotConnected, NoCleanup, Waiting,
          Unsent, NothingSent
    <3>6. Unsent'
      BY <1>0, <1>a, <1>b, <1>j, <2>g, <3>a, <3>b, <3>c, Waiters
      DEF Unsent, NothingSent, Owned, hostVars, Scalars, NotConnected, NoCleanup,
          Waiting
    <3>7. AskedOnce'
      BY <1>0, <1>a, <1>b, <1>j, <2>g, <3>a, <3>b, <3>c, Waiters
      DEF AskedOnce, Generates, Outcomes, Unsent, NothingSent, hostVars, Scalars
    <3>8. Reported'
      BY <1>0, <1>a, <1>b, <1>j, <2>g, <3>a, <3>b, <3>c, Waiters
      DEF Reported, AskedOnce, Generates, Outcomes, hostVars, Scalars
    <3>9. Truth'
      BY <1>0, <1>a, <1>b, <1>j, <2>g, <3>a, <3>b, <3>c, Waiters
      DEF Truth, Owned, Unsent, NothingSent, AskedOnce, Generates, Outcomes,
          Reported, hostVars, Scalars, NotConnected, NoCleanup, Waiting
    <3>10. Files'
      BY <1>0, <1>a, <1>b, <1>j, <2>g, <3>a, <3>b, <3>c, Waiters
      DEF Files, Places, Before, Owned, Reported, Truth, hostVars, Scalars
    <3>11. QED
      BY <3>1, <3>2, <3>3, <3>4, <3>5, <3>6, <3>7, <3>8, <3>9, <3>10 DEF IInv
  <2>h. QED
    BY <1>0, <1>j, <2>d, <2>e, <2>f, <2>g, CleanupCases DEF Scalars
<1>k. QED
  BY <1>i, <1>j DEF Cancel

(* The task of the cleanup sends its release. *)
LEMMA SendReleaseKeeps ==
  ASSUME IInv, SendRelease
  PROVE  IInv'
<1>0. /\ Scalars /\ Messages /\ Owned /\ Connection /\ Answered
      /\ Unsent /\ AskedOnce /\ Reported /\ Truth /\ Files
  BY DEF IInv
<1>a. /\ release = "queued" /\ release' = "sent" /\ nextId' = nextId + 1
      /\ waiter # "release" /\ resource.kind = "releasing"
      /\ Exchange("release", Request(nextId + 1, "release", <<0, 0>>))
      /\ UNCHANGED <<at, resource, manifest, position, received, hashed, result,
                     reported, aborted, current, hostVars>>
  <2>1. waiter = "release" => FALSE
    BY <1>0 DEF SendRelease, Connection
  <2>2. QED
    BY <1>0, <2>1 DEF SendRelease, Owned
<1>b. /\ Request(nextId + 1, "release", <<0, 0>>) \in Requests
      /\ Request(nextId + 1, "release", <<0, 0>>).method = "release"
  BY <1>0, RequestOf DEF Methods, Scalars
<1>c. /\ channel' = channel
      /\ waiter' \in {waiter, "release"}
      /\ waiter' = "release" => channel = "open"
      /\ waiter' = "release" => answer'["release"] = NoReply
      /\ answer' \in [Owners -> Replies]
      /\ \A other \in Owners :
           answer'[other] \in {answer[other], Rejected, NoReply}
      /\ answer'["run"] = answer["run"]
      /\ toHost' \in Seq(Requests)
      /\ toHost' = toHost
         \/ toHost' = Append(toHost, Request(nextId + 1, "release", <<0, 0>>))
  <2>1. "release" \in Owners /\ "run" \in Owners \ {"release"}
    BY Waiters
  <2>2. QED
    BY <1>0, <1>a, <1>b, <2>1, Exchanging
<1>d. \A n \in DOMAIN toHost' :
        \/ n \in DOMAIN toHost /\ toHost'[n] = toHost[n]
        \/ /\ n = Len(toHost) + 1
           /\ toHost'[n] = Request(nextId + 1, "release", <<0, 0>>)
  <2>1. CASE toHost' = toHost
    BY <2>1
  <2>2. CASE toHost' = Append(toHost, Request(nextId + 1, "release", <<0, 0>>))
    BY <1>0, <1>b, <2>2 DEF Messages
  <2>3. QED
    BY <1>c, <2>1, <2>2
<1>1. Scalars'
  BY <1>0, <1>a, <1>b, <1>c, <1>d, Waiters
  DEF Scalars, hostVars, Points
<1>2. Messages'
  BY <1>0, <1>a, <1>b, <1>c, <1>d, Waiters
  DEF Messages, hostVars
<1>3. Owned'
  BY <1>0, <1>a, <1>b, <1>c, <1>d, Waiters
  DEF Owned, hostVars, Scalars
<1>4. Connection'
  BY <1>0, <1>a, <1>b, <1>c, <1>d, Waiters
  DEF Connection, Owned, hostVars, Scalars
<1>5. Answered'
  BY <1>0, <1>a, <1>b, <1>c, <1>d, Waiters
  DEF Answered, Owned, hostVars, Scalars, NotConnected, NoCleanup, Waiting
<1>6. Unsent'
  BY <1>0, <1>a, <1>b, <1>c, <1>d, Waiters
  DEF Unsent, NothingSent, Owned, hostVars, Scalars, NotConnected, NoCleanup,
      Waiting
<1>7. AskedOnce'
  <2>1. Generates' \subseteq Generates
    BY <1>b, <1>d DEF Generates
  <2>2. Outcomes' = Outcomes /\ held' = held /\ at' = at
    BY <1>a DEF Outcomes, hostVars
  <2>3. QED
    BY <1>0, <2>1, <2>2 DEF AskedOnce
<1>8. Reported'
  BY <1>0, <1>a, <1>b, <1>c, <1>d, Waiters
  DEF Reported, AskedOnce, Generates, Outcomes, hostVars, Scalars
<1>9. Truth'
  BY <1>0, <1>a, <1>b, <1>c, <1>d, Waiters
  DEF Truth, Owned, Unsent, NothingSent, AskedOnce, Generates, Outcomes,
      Reported, hostVars, Scalars, NotConnected, NoCleanup, Waiting
<1>10. Files'
  BY <1>0, <1>a, <1>b, <1>c, <1>d, Waiters
  DEF Files, Places, Before, Owned, Reported, Truth, hostVars, Scalars
<1>11. QED
  BY <1>1, <1>2, <1>3, <1>4, <1>5, <1>6, <1>7, <1>8, <1>9, <1>10 DEF IInv

(* The task of the cleanup resumes from its release. *)
LEMMA FinishReleaseKeeps ==
  ASSUME IInv, FinishRelease
  PROVE  IInv'
<1>0. /\ Scalars /\ Messages /\ Owned /\ Connection /\ Answered
      /\ Unsent /\ AskedOnce /\ Reported /\ Truth /\ Files
  BY DEF IInv
<1>a. /\ release = "sent" /\ release' = "done" /\ resource.kind = "releasing"
      /\ resource.known /\ held # "absent"
      /\ UNCHANGED <<at, nextId, manifest, position, received, hashed, result,
                     reported, aborted, current, toHost, hostVars>>
  BY <1>0 DEF FinishRelease, Owned, Truth
<1>b. /\ channel' = IF channel = "open" THEN "closed" ELSE channel
      /\ waiter' = Nobody
      /\ answer' \in [Owners -> Replies]
      /\ \A owner \in Owners : answer'[owner] \in {answer[owner], Rejected}
  BY <1>0, Closing DEF FinishRelease
<1>c. PICK cleanup \in Cleanups :
        /\ resource' = Ended(cleanup)
        /\ cleanup.kind \in {"released", "release-failed"} /\ cleanup.known
        /\ cleanup.kind = "released" => held = "released"
  <2>1. CASE IsAcknowledgement(answer["release"])
    <3>1. answer["release"].kind = "released" /\ answer["release"] \in replied
      BY <1>0, <2>1, Waiters, Constants DEF IsAcknowledgement, Reported
    <3>2. held = "released"
      BY <1>0, <3>1 DEF Reported
    <3>3. QED
      BY <2>1, <3>2, CleanupValues DEF FinishRelease, Released
  <2>2. CASE ~IsAcknowledgement(answer["release"])
    BY <2>2, CleanupValues DEF FinishRelease, Closed
  <2>3. QED
    BY <2>1, <2>2
<1>d. /\ resource' \in Resources /\ resource'.kind = "closed"
      /\ resource'.known /\ resource'.cleanup = cleanup
  BY <1>c, EndedOf
<1>1. Scalars'
  BY <1>0, <1>a, <1>b, <1>c, <1>d, Waiters
  DEF Scalars, hostVars, Points
<1>2. Messages'
  BY <1>0, <1>a, <1>b, <1>c, <1>d, Waiters
  DEF Messages, hostVars
<1>3. Owned'
  BY <1>0, <1>a, <1>b, <1>c, <1>d, Waiters
  DEF Owned, hostVars, Scalars
<1>4. Connection'
  BY <1>0, <1>a, <1>b, <1>c, <1>d, Waiters
  DEF Connection, Owned, hostVars, Scalars
<1>5. Answered'
  BY <1>0, <1>a, <1>b, <1>c, <1>d, Waiters
  DEF Answered, Owned, hostVars, Scalars, NotConnected, NoCleanup, Waiting
<1>6. Unsent'
  BY <1>0, <1>a, <1>b, <1>c, <1>d, Waiters
  DEF Unsent, NothingSent, Owned, hostVars, Scalars, NotConnected, NoCleanup,
      Waiting
<1>7. AskedOnce'
  BY <1>0, <1>a, <1>b, <1>c, <1>d, Waiters
  DEF AskedOnce, Generates, Outcomes, Unsent, NothingSent, hostVars, Scalars
<1>8. Reported'
  BY <1>0, <1>a, <1>b, <1>c, <1>d, Waiters
  DEF Reported, AskedOnce, Generates, Outcomes, hostVars, Scalars
<1>9. Truth'
  BY <1>0, <1>a, <1>b, <1>c, <1>d, Waiters
  DEF Truth, Owned, Unsent, NothingSent, AskedOnce, Generates, Outcomes,
      Reported, hostVars, Scalars, NotConnected, NoCleanup, Waiting
<1>10. Files'
  BY <1>0, <1>a, <1>b, <1>c, <1>d, Waiters
  DEF Files, Places, Before, Owned, Reported, Truth, hostVars, Scalars
<1>11. QED
  BY <1>1, <1>2, <1>3, <1>4, <1>5, <1>6, <1>7, <1>8, <1>9, <1>10 DEF IInv

(* run() resumes from the generation. *)
LEMMA GeneratedKeeps ==
  ASSUME IInv, Generated
  PROVE  IInv'
<1>0. /\ Scalars /\ Messages /\ Owned /\ Connection /\ Answered
      /\ Unsent /\ AskedOnce /\ Reported /\ Truth /\ Files
  BY DEF IInv
<1>a. /\ at = "generating" /\ resource.kind # "exchanging"
      /\ UNCHANGED <<reported, aborted, current, hostVars>>
  BY DEF Generated, Resumes
<1>b. \A reply \in {answer["run"]} :
        /\ reply.kind \in {"ready", "failed"} => reply \in replied
        /\ reply.kind = "ready" => held # "absent" /\ reply.inventory = produced
  BY <1>0, Waiters, Constants DEF Reported
<1>1. CASE IsManifest(answer["run"]) /\ IsCurrent
  <2>a. /\ manifest' = produced /\ held # "absent"
        /\ answer["run"].inventory = produced
    BY <1>b, <1>1 DEF Generated, IsManifest, IsFailure
  <2>b. /\ resource.kind = "connected" /\ waiter = Nobody /\ ~aborted
        /\ reported = NoCleanup /\ release \notin {"queued", "sent"}
        /\ channel \notin {"opening", "none"}
    BY <1>0, <1>a, <1>1, WhileCurrent DEF Owned, Connection
  <2>1. CASE produced = <<>>
    <3>a. /\ at' = "verifying" /\ resource' = Resource("retained", TRUE)
          /\ UNCHANGED <<nextId, position, received, hashed, result, release,
                         channelVars>>
      BY <1>1, <2>a, <2>b, <2>1 DEF Generated, Learned, IsManifest, IsFailure
    <3>b. /\ resource' \in Resources /\ resource'.kind = "retained"
          /\ resource'.known /\ resource'.cleanup = NoCleanup
      BY <3>a, ResourceOf DEF Kinds
    <3>c. Whole(manifest') = {} /\ received = {} /\ hashed = 0 /\ Len(manifest') = 0
      BY <1>0, <1>a, <2>a, <2>1 DEF Whole, Files
    <3>1. Scalars'
      BY <1>0, <1>a, <2>a, <2>b, <2>1, <3>a, <3>b, <3>c, Waiters
      DEF Scalars, channelVars, hostVars, Points
    <3>2. Messages'
      BY <1>0, <1>a, <2>a, <2>b, <2>1, <3>a, <3>b, <3>c, Waiters
      DEF Messages, channelVars, hostVars
    <3>3. Owned'
      BY <1>0, <1>a, <2>a, <2>b, <2>1, <3>a, <3>b, <3>c, Waiters
      DEF Owned, channelVars, hostVars, Scalars
    <3>4. Connection'
      BY <1>0, <1>a, <2>a, <2>b, <2>1, <3>a, <3>b, <3>c, Waiters
      DEF Connection, Owned, channelVars, hostVars, Scalars
    <3>5. Answered'
      BY <1>0, <1>a, <2>a, <2>b, <2>1, <3>a, <3>b, <3>c, Waiters
      DEF Answered, Owned, channelVars, hostVars, Scalars, NotConnected,
          NoCleanup, Waiting
    <3>6. Unsent'
      BY <1>0, <1>a, <2>a, <2>b, <2>1, <3>a, <3>b, <3>c, Waiters
      DEF Unsent, NothingSent, Owned, channelVars, hostVars, Scalars,
          NotConnected, NoCleanup, Waiting
    <3>7. AskedOnce'
      BY <1>0, <1>a, <2>a, <2>b, <2>1, <3>a, <3>b, <3>c, Waiters
      DEF AskedOnce, Generates, Outcomes, Unsent, NothingSent, channelVars,
          hostVars, Scalars
    <3>8. Reported'
      BY <1>0, <1>a, <2>a, <2>b, <2>1, <3>a, <3>b, <3>c, Waiters
      DEF Reported, AskedOnce, Generates, Outcomes, channelVars, hostVars, Scalars
    <3>9. Truth'
      <4>1. replied' = replied /\ held' = held /\ reported' = reported
        BY <1>a DEF hostVars
      <4>2. NoCleanup.kind = "none" /\ ~NoCleanup.known
        BY DEF NoCleanup
      <4>3. resource'.cleanup = NoCleanup /\ reported' = NoCleanup /\ held' # "absent"
        BY <2>a, <2>b, <3>b, <4>1
      <4>4. QED
        BY <4>2, <4>3 DEF Truth
    <3>10. Files'
      BY <1>0, <1>a, <2>a, <2>b, <2>1, <3>a, <3>b, <3>c, Waiters
      DEF Files, Places, Before, Owned, Reported, Truth, channelVars, hostVars,
          Scalars
    <3>11. QED
      BY <3>1, <3>2, <3>3, <3>4, <3>5, <3>6, <3>7, <3>8, <3>9, <3>10 DEF IInv
  <2>2. CASE produced # <<>>
    <3>a. /\ Ask("receiving", TRUE, Request(nextId + 1, "read", <<1, 1>>))
          /\ nextId' = nextId + 1 /\ position' = <<1, 1>>
          /\ UNCHANGED <<received, hashed>>
      BY <1>1, <2>a, <2>2 DEF Generated, Read, IsManifest, IsFailure
    <3>b. /\ Request(nextId + 1, "read", <<1, 1>>) \in Requests
          /\ Request(nextId + 1, "read", <<1, 1>>).method = "read"
      BY <1>0, RequestOf DEF Methods, Scalars
    <3>c. /\ at' = "receiving" /\ UNCHANGED <<release, result, channel>>
          /\ resource' \in Resources /\ resource'.kind = "exchanging"
          /\ resource'.known = TRUE /\ resource'.cleanup = NoCleanup
          /\ waiter' \in {waiter, "run"}
          /\ waiter' = "run" => channel = "open"
          /\ waiter' = "run" => answer'["run"] = NoReply
          /\ answer' \in [Owners -> Replies]
          /\ \A other \in Owners :
             answer'[other] \in {answer[other], Rejected, NoReply}
          /\ toHost' \in Seq(Requests)
          /\ \A n \in DOMAIN toHost' :
             \/ n \in DOMAIN toHost /\ toHost'[n] = toHost[n]
             \/ /\ n = Len(toHost) + 1
                /\ toHost'[n] = Request(nextId + 1, "read", <<1, 1>>)
      BY <1>0, <2>b, <3>a, <3>b, Asking, Waiters
    <3>d. /\ <<1, 1>> \in Whole(manifest') /\ Places' = {}
          /\ \A other \in Whole(manifest') :
               ~(other[1] < 1 \/ (other[1] = 1 /\ other[2] < 1))
      <4>1. manifest' \in Seq(Nat \ {0}) /\ manifest' # <<>>
        BY <1>0, <2>a, <2>2 DEF Messages, Inventory
      <4>2. 1 \in 1..Len(manifest') /\ 1 \in 1..manifest'[1]
        BY <4>1
      <4>3. received' = {}
        BY <1>0, <1>a, <3>a DEF Files
      <4>4. QED
        BY <4>1, <4>2, <4>3 DEF Whole, Places
    <3>1. Scalars'
      BY <1>0, <1>a, <2>a, <2>b, <3>a, <3>b, <3>c, <3>d, Waiters
      DEF Scalars, hostVars, Points
    <3>2. Messages'
      BY <1>0, <1>a, <2>a, <2>b, <3>a, <3>b, <3>c, <3>d, Waiters
      DEF Messages, hostVars
    <3>3. Owned'
      BY <1>0, <1>a, <2>a, <2>b, <3>a, <3>b, <3>c, <3>d, Waiters
      DEF Owned, hostVars, Scalars
    <3>4. Connection'
      BY <1>0, <1>a, <2>a, <2>b, <3>a, <3>b, <3>c, <3>d, Waiters
      DEF Connection, Owned, hostVars, Scalars
    <3>5. Answered'
      BY <1>0, <1>a, <2>a, <2>b, <3>a, <3>b, <3>c, <3>d, Waiters
      DEF Answered, Owned, hostVars, Scalars, NotConnected, NoCleanup, Waiting
    <3>6. Unsent'
      BY <1>0, <1>a, <2>a, <2>b, <3>a, <3>b, <3>c, <3>d, Waiters
      DEF Unsent, NothingSent, Owned, hostVars, Scalars, NotConnected, NoCleanup,
          Waiting
    <3>7. AskedOnce'
      <4>1. Generates' \subseteq Generates
        BY <3>b, <3>c DEF Generates
      <4>2. Outcomes' = Outcomes /\ held' = held
        BY <1>a DEF Outcomes, hostVars
      <4>3. QED
        BY <1>0, <1>a, <3>c, <4>1, <4>2 DEF AskedOnce
    <3>8. Reported'
      BY <1>0, <1>a, <2>a, <2>b, <3>a, <3>b, <3>c, <3>d, Waiters
      DEF Reported, AskedOnce, Generates, Outcomes, hostVars, Scalars
    <3>9. Truth'
      BY <1>0, <1>a, <2>a, <2>b, <3>a, <3>b, <3>c, <3>d, Waiters
      DEF Truth, Owned, Unsent, NothingSent, AskedOnce, Generates, Outcomes,
          Reported, hostVars, Scalars, NotConnected, NoCleanup, Waiting
    <3>10. Files'
      BY <1>0, <1>a, <2>a, <2>b, <3>a, <3>b, <3>c, <3>d, Waiters
      DEF Files, Places, Before, Owned, Reported, Truth, hostVars, Scalars
    <3>11. QED
      BY <3>1, <3>2, <3>3, <3>4, <3>5, <3>6, <3>7, <3>8, <3>9, <3>10 DEF IInv
  <2>3. QED
    BY <2>1, <2>2
<1>2. CASE IsFailure(answer["run"]) /\ IsCurrent
  <2>a. /\ CloseChannel /\ resource' = Ended(NotRetained)
        /\ result' = Returned("generation-failed", NotRetained)
        /\ at' = "finished"
        /\ UNCHANGED <<nextId, fileVars, release, toHost>>
    BY <1>2 DEF Generated, IsFailure, IsManifest
  <2>b. /\ resource.kind = "connected" /\ ~aborted
        /\ reported = NoCleanup /\ release \notin {"queued", "sent"}
        /\ channel \notin {"opening", "none"}
    BY <1>0, <1>a, <1>2, WhileCurrent DEF Owned, Connection
  <2>c. /\ resource' \in Resources /\ resource'.kind = "closed" /\ ~resource'.known
        /\ resource'.cleanup = NotRetained /\ NotRetained.kind = "not-retained"
        /\ ~NotRetained.known
        /\ result' \in Results /\ result'.kind = "generation-failed"
        /\ result'.cleanup = NotRetained
    BY <2>a, EndedOf, ResultOf, CleanupValues DEF NotRetained, ResultKinds
  <2>d. /\ channel' = IF channel = "open" THEN "closed" ELSE channel
        /\ waiter' = Nobody
        /\ answer' \in [Owners -> Replies]
        /\ \A owner \in Owners : answer'[owner] \in {answer[owner], Rejected}
    BY <1>0, <2>a, Closing
  <2>e. \E reply \in replied : reply.kind = "failed"
    BY <1>b, <1>2 DEF IsFailure
  <2>1. Scalars'
    BY <1>0, <1>a, <2>a, <2>b, <2>c, <2>d, <2>e, Waiters
    DEF Scalars, fileVars, hostVars, Points
  <2>2. Messages'
    BY <1>0, <1>a, <2>a, <2>b, <2>c, <2>d, <2>e, Waiters
    DEF Messages, fileVars, hostVars
  <2>3. Owned'
    BY <1>0, <1>a, <2>a, <2>b, <2>c, <2>d, <2>e, Waiters
    DEF Owned, fileVars, hostVars, Scalars
  <2>4. Connection'
    BY <1>0, <1>a, <2>a, <2>b, <2>c, <2>d, <2>e, Waiters
    DEF Connection, Owned, fileVars, hostVars, Scalars
  <2>5. Answered'
    BY <1>0, <1>a, <2>a, <2>b, <2>c, <2>d, <2>e, Waiters
    DEF Answered, Owned, fileVars, hostVars, Scalars, NotConnected, NoCleanup,
        Waiting
  <2>6. Unsent'
    BY <1>0, <1>a, <2>a, <2>b, <2>c, <2>d, <2>e, Waiters
    DEF Unsent, NothingSent, Owned, fileVars, hostVars, Scalars, NotConnected,
        NoCleanup, Waiting
  <2>7. AskedOnce'
    BY <1>0, <1>a, <2>a, <2>b, <2>c, <2>d, <2>e, Waiters
    DEF AskedOnce, Generates, Outcomes, Unsent, NothingSent, fileVars, hostVars,
        Scalars
  <2>8. Reported'
    BY <1>0, <1>a, <2>a, <2>b, <2>c, <2>d, <2>e, Waiters
    DEF Reported, AskedOnce, Generates, Outcomes, fileVars, hostVars, Scalars
  <2>9. Truth'
    BY <1>0, <1>a, <2>a, <2>b, <2>c, <2>d, <2>e, Waiters
    DEF Truth, Owned, Unsent, NothingSent, AskedOnce, Generates, Outcomes,
        Reported, fileVars, hostVars, Scalars, NotConnected, NoCleanup, Waiting
  <2>10. Files'
    BY <1>0, <1>a, <2>a, <2>b, <2>c, <2>d, <2>e, Waiters
    DEF Files, Places, Before, Owned, Reported, Truth, fileVars, hostVars, Scalars
  <2>11. QED
    BY <2>1, <2>2, <2>3, <2>4, <2>5, <2>6, <2>7, <2>8, <2>9, <2>10 DEF IInv
<1>3. CASE Fail(resource)
  BY <1>a, <1>3, MayFailHere, FailKeeps
<1>4. CASE /\ IsManifest(answer["run"]) /\ resource.kind = "connected"
           /\ Fail(Resource("retained", TRUE))
  <2>1. MayFail(Resource("retained", TRUE))
    <3>1. Resource("retained", TRUE).kind = "retained"
      BY ResourceOf DEF Kinds
    <3>2. QED
      BY <1>0, <1>a, <1>b, <1>4, <3>1 DEF MayFail, IsManifest, Connection
  <2>2. QED
    BY <1>a, <1>4, <2>1, FailKeeps
<1>5. QED
  BY <1>1, <1>2, <1>3, <1>4 DEF Generated, Learned

(* run() resumes from a read. *)
LEMMA ReceivedKeeps ==
  ASSUME IInv, Received
  PROVE  IInv'
<1>0. /\ Scalars /\ Messages /\ Owned /\ Connection /\ Answered
      /\ Unsent /\ AskedOnce /\ Reported /\ Truth /\ Files
  BY DEF IInv
<1>a. /\ at = "receiving" /\ resource.kind # "exchanging"
      /\ UNCHANGED <<reported, aborted, current, hostVars>>
  BY DEF Received, Resumes
<1>1. CASE IsCurrent /\ IsChunk(answer["run"])
  <2>a. PICK chunk \in Chunks : chunk.place = position /\ received' = received \cup {chunk}
    BY <1>0, <1>1, Waiters DEF Received, IsChunk, Messages, Replies
  <2>b. /\ resource.kind \in {"connected", "retained"} /\ waiter = Nobody /\ ~aborted
        /\ reported = NoCleanup /\ release \notin {"queued", "sent"}
        /\ channel \notin {"opening", "none"}
        /\ resource.cleanup = NoCleanup /\ held # "absent" /\ hashed = 0
        /\ manifest = produced
        /\ UNCHANGED <<manifest, hashed>>
    BY <1>0, <1>a, <1>1, WhileCurrent DEF Received, Owned, Connection, Files
  <2>c. Places' = Before(position) \cup {position}
    BY <1>0, <1>a, <2>a DEF Files, Places
  <2>d. /\ position = <<position[1], position[2]>>
        /\ position[1] \in 1..Len(manifest) /\ position[1] \in Nat /\ position[2] \in Nat
        /\ position[2] \in 1..manifest[position[1]]
        /\ manifest \in Seq(Nat \ {0})
    BY <1>0, <1>a DEF Files, Whole, Messages, Inventory, Scalars
  <2>1. CASE position[2] < manifest[position[1]]
    <3>a. /\ Ask("receiving", TRUE, Request(nextId + 1, "read", <<position[1], position[2] + 1>>))
          /\ nextId' = nextId + 1 /\ position' = <<position[1], position[2] + 1>>
      <4>1. position # <<Len(manifest), manifest[Len(manifest)]>>
        BY <2>d, <2>1
      <4>2. manifest[position[1]] \in Nat /\ Len(manifest) \in Nat
        BY <2>d
      <4>3. Read(<<position[1], position[2] + 1>>)
        BY <1>1, <2>d, <2>1, <4>1, <4>2 DEF Received
      <4>4. QED
        BY <4>3 DEF Read
    <3>b. /\ Request(nextId + 1, "read", <<position[1], position[2] + 1>>) \in Requests
          /\ Request(nextId + 1, "read", <<position[1], position[2] + 1>>).method = "read"
          /\ <<position[1], position[2] + 1>> \in Nat \X Nat
      BY <1>0, <2>d, RequestOf DEF Methods, Scalars
    <3>c. /\ at' = "receiving" /\ UNCHANGED <<release, result, channel>>
          /\ resource' \in Resources /\ resource'.kind = "exchanging"
          /\ resource'.known = TRUE /\ resource'.cleanup = NoCleanup
          /\ waiter' \in {waiter, "run"}
          /\ waiter' = "run" => channel = "open"
          /\ waiter' = "run" => answer'["run"] = NoReply
          /\ answer' \in [Owners -> Replies]
          /\ \A other \in Owners :
             answer'[other] \in {answer[other], Rejected, NoReply}
          /\ toHost' \in Seq(Requests)
          /\ \A n \in DOMAIN toHost' :
             \/ n \in DOMAIN toHost /\ toHost'[n] = toHost[n]
             \/ /\ n = Len(toHost) + 1
                /\ toHost'[n] = Request(nextId + 1, "read", <<position[1], position[2] + 1>>)
      BY <1>0, <2>b, <3>a, <3>b, Asking, Waiters
    <3>d. /\ position' \in Whole(manifest)
          /\ Before(position') = Before(position) \cup {position}
      <4>1. <<position[1], position[2] + 1>> \in Whole(manifest)
        <5>1. position[2] + 1 \in 1..manifest[position[1]]
          BY <2>d, <2>1
        <5>2. QED
          BY <2>d, <5>1 DEF Whole
      <4>2. \A other \in Whole(manifest) :
              /\ other = <<other[1], other[2]>>
              /\ other[1] \in Nat /\ other[2] \in Nat
        BY <2>d DEF Whole
      <4>3. position \in Whole(manifest)
        BY <1>0, <1>a DEF Files
      <4>4. \A other \in Whole(manifest) :
              (other[1] < position[1] \/ (other[1] = position[1]
                                          /\ other[2] < position[2] + 1))
              <=> ((other[1] < position[1] \/ (other[1] = position[1]
                                               /\ other[2] < position[2]))
                   \/ other = position)
        BY <2>d, <4>2, SMTT(30)
      <4>5. QED
        BY <3>a, <4>1, <4>3, <4>4 DEF Before
    <3>1. Scalars'
      BY <1>0, <1>a, <2>a, <2>b, <2>c, <3>a, <3>b, <3>c, <3>d, Waiters
      DEF Scalars, hostVars, Points
    <3>2. Messages'
      BY <1>0, <1>a, <2>a, <2>b, <2>c, <3>a, <3>b, <3>c, <3>d, Waiters
      DEF Messages, hostVars
    <3>3. Owned'
      BY <1>0, <1>a, <2>a, <2>b, <2>c, <3>a, <3>b, <3>c, <3>d, Waiters
      DEF Owned, hostVars, Scalars
    <3>4. Connection'
      BY <1>0, <1>a, <2>a, <2>b, <2>c, <3>a, <3>b, <3>c, <3>d, Waiters
      DEF Connection, Owned, hostVars, Scalars
    <3>5. Answered'
      BY <1>0, <1>a, <2>a, <2>b, <2>c, <3>a, <3>b, <3>c, <3>d, Waiters
      DEF Answered, Owned, hostVars, Scalars, NotConnected, NoCleanup, Waiting
    <3>6. Unsent'
      BY <1>0, <1>a, <2>a, <2>b, <2>c, <3>a, <3>b, <3>c, <3>d, Waiters
      DEF Unsent, NothingSent, Owned, hostVars, Scalars, NotConnected, NoCleanup,
          Waiting
    <3>7. AskedOnce'
      <4>1. Generates' \subseteq Generates
        BY <3>b, <3>c DEF Generates
      <4>2. Outcomes' = Outcomes /\ held' = held
        BY <1>a DEF Outcomes, hostVars
      <4>3. QED
        BY <1>0, <1>a, <3>c, <4>1, <4>2 DEF AskedOnce
    <3>8. Reported'
      BY <1>0, <1>a, <2>a, <2>b, <2>c, <3>a, <3>b, <3>c, <3>d, Waiters
      DEF Reported, AskedOnce, Generates, Outcomes, hostVars, Scalars
    <3>9. Truth'
      BY <1>0, <1>a, <2>a, <2>b, <2>c, <3>a, <3>b, <3>c, <3>d, Waiters
      DEF Truth, Owned, Unsent, NothingSent, AskedOnce, Generates, Outcomes,
          Reported, hostVars, Scalars, NotConnected, NoCleanup, Waiting
    <3>10. Files'
      <4>1. Places' = Before(position)' /\ (position \in Whole(manifest))'
        BY <2>b, <2>c, <3>d DEF Before
      <4>2. held' = held /\ produced' = produced /\ result.kind # "verified"
        BY <1>0, <1>a DEF hostVars, Owned, NoResult, Returned
      <4>3. QED
        BY <1>0, <1>a, <2>b, <3>c, <4>1, <4>2 DEF Files
    <3>11. QED
      BY <3>1, <3>2, <3>3, <3>4, <3>5, <3>6, <3>7, <3>8, <3>9, <3>10 DEF IInv
  <2>2. CASE /\ position[2] = manifest[position[1]]
             /\ position[1] < Len(manifest)
    <3>a. /\ Ask("receiving", TRUE, Request(nextId + 1, "read", <<position[1] + 1, 1>>))
          /\ nextId' = nextId + 1 /\ position' = <<position[1] + 1, 1>>
      <4>1. position # <<Len(manifest), manifest[Len(manifest)]>>
        BY <2>d, <2>2
      <4>2. manifest[position[1]] \in Nat /\ Len(manifest) \in Nat
        BY <2>d
      <4>3. Read(<<position[1] + 1, 1>>)
        BY <1>1, <2>d, <2>2, <4>1, <4>2 DEF Received
      <4>4. QED
        BY <4>3 DEF Read
    <3>b. /\ Request(nextId + 1, "read", <<position[1] + 1, 1>>) \in Requests
          /\ Request(nextId + 1, "read", <<position[1] + 1, 1>>).method = "read"
          /\ <<position[1] + 1, 1>> \in Nat \X Nat
      BY <1>0, <2>d, RequestOf DEF Methods, Scalars
    <3>c. /\ at' = "receiving" /\ UNCHANGED <<release, result, channel>>
          /\ resource' \in Resources /\ resource'.kind = "exchanging"
          /\ resource'.known = TRUE /\ resource'.cleanup = NoCleanup
          /\ waiter' \in {waiter, "run"}
          /\ waiter' = "run" => channel = "open"
          /\ waiter' = "run" => answer'["run"] = NoReply
          /\ answer' \in [Owners -> Replies]
          /\ \A other \in Owners :
             answer'[other] \in {answer[other], Rejected, NoReply}
          /\ toHost' \in Seq(Requests)
          /\ \A n \in DOMAIN toHost' :
             \/ n \in DOMAIN toHost /\ toHost'[n] = toHost[n]
             \/ /\ n = Len(toHost) + 1
                /\ toHost'[n] = Request(nextId + 1, "read", <<position[1] + 1, 1>>)
      BY <1>0, <2>b, <3>a, <3>b, Asking, Waiters
    <3>d. /\ position' \in Whole(manifest)
          /\ Before(position') = Before(position) \cup {position}
      <4>1. <<position[1] + 1, 1>> \in Whole(manifest)
        <5>1. position[1] + 1 \in 1..Len(manifest)
          BY <2>d, <2>2
        <5>2. 1 \in 1..manifest[position[1] + 1]
          BY <2>d, <5>1
        <5>3. QED
          BY <5>1, <5>2 DEF Whole
      <4>2. \A other \in Whole(manifest) :
              /\ other = <<other[1], other[2]>>
              /\ other[1] \in Nat /\ other[2] \in Nat
              /\ other[2] >= 1 /\ other[2] <= manifest[other[1]]
        BY <2>d DEF Whole
      <4>3. position \in Whole(manifest)
        BY <1>0, <1>a DEF Files
      <4>4. \A other \in Whole(manifest) :
              (other[1] < position[1] + 1 \/ (other[1] = position[1] + 1
                                              /\ other[2] < 1))
              <=> ((other[1] < position[1] \/ (other[1] = position[1]
                                               /\ other[2] < position[2]))
                   \/ other = position)
        BY <2>d, <2>2, <4>2, SMTT(30)
      <4>5. QED
        BY <3>a, <4>1, <4>3, <4>4 DEF Before
    <3>1. Scalars'
      BY <1>0, <1>a, <2>a, <2>b, <2>c, <3>a, <3>b, <3>c, <3>d, Waiters
      DEF Scalars, hostVars, Points
    <3>2. Messages'
      BY <1>0, <1>a, <2>a, <2>b, <2>c, <3>a, <3>b, <3>c, <3>d, Waiters
      DEF Messages, hostVars
    <3>3. Owned'
      BY <1>0, <1>a, <2>a, <2>b, <2>c, <3>a, <3>b, <3>c, <3>d, Waiters
      DEF Owned, hostVars, Scalars
    <3>4. Connection'
      BY <1>0, <1>a, <2>a, <2>b, <2>c, <3>a, <3>b, <3>c, <3>d, Waiters
      DEF Connection, Owned, hostVars, Scalars
    <3>5. Answered'
      BY <1>0, <1>a, <2>a, <2>b, <2>c, <3>a, <3>b, <3>c, <3>d, Waiters
      DEF Answered, Owned, hostVars, Scalars, NotConnected, NoCleanup, Waiting
    <3>6. Unsent'
      BY <1>0, <1>a, <2>a, <2>b, <2>c, <3>a, <3>b, <3>c, <3>d, Waiters
      DEF Unsent, NothingSent, Owned, hostVars, Scalars, NotConnected, NoCleanup,
          Waiting
    <3>7. AskedOnce'
      <4>1. Generates' \subseteq Generates
        BY <3>b, <3>c DEF Generates
      <4>2. Outcomes' = Outcomes /\ held' = held
        BY <1>a DEF Outcomes, hostVars
      <4>3. QED
        BY <1>0, <1>a, <3>c, <4>1, <4>2 DEF AskedOnce
    <3>8. Reported'
      BY <1>0, <1>a, <2>a, <2>b, <2>c, <3>a, <3>b, <3>c, <3>d, Waiters
      DEF Reported, AskedOnce, Generates, Outcomes, hostVars, Scalars
    <3>9. Truth'
      BY <1>0, <1>a, <2>a, <2>b, <2>c, <3>a, <3>b, <3>c, <3>d, Waiters
      DEF Truth, Owned, Unsent, NothingSent, AskedOnce, Generates, Outcomes,
          Reported, hostVars, Scalars, NotConnected, NoCleanup, Waiting
    <3>10. Files'
      <4>1. Places' = Before(position)' /\ (position \in Whole(manifest))'
        BY <2>b, <2>c, <3>d DEF Before
      <4>2. held' = held /\ produced' = produced /\ result.kind # "verified"
        BY <1>0, <1>a DEF hostVars, Owned, NoResult, Returned
      <4>3. QED
        BY <1>0, <1>a, <2>b, <3>c, <4>1, <4>2 DEF Files
    <3>11. QED
      BY <3>1, <3>2, <3>3, <3>4, <3>5, <3>6, <3>7, <3>8, <3>9, <3>10 DEF IInv
  <2>3. CASE ~(position[2] < manifest[position[1]]) /\ ~(position[1] < Len(manifest))
    <3>a. /\ at' = "verifying"
          /\ UNCHANGED <<nextId, position, resource, result, release, channelVars>>
      BY <1>1, <2>d, <2>3 DEF Received
    <3>b. Whole(manifest) = Before(position) \cup {position}
      <4>1. position[1] = Len(manifest) /\ position[2] = manifest[position[1]]
        BY <2>d, <2>3
      <4>2. \A other \in Whole(manifest) :
              /\ other = <<other[1], other[2]>>
              /\ other[1] \in 1..Len(manifest)
              /\ other[2] \in 1..manifest[other[1]]
        BY <2>d DEF Whole
      <4>3. position \in Whole(manifest)
        BY <1>0, <1>a DEF Files
      <4>4. \A other \in Whole(manifest) :
              \/ other[1] < position[1]
              \/ other[1] = position[1] /\ other[2] < position[2]
              \/ other = position
        BY <2>d, <4>1, <4>2
      <4>5. QED
        BY <4>3, <4>4 DEF Before
    <3>c. \A other \in received' : other.place[1] > 0
      <4>1. Before(position) \cup {position} \subseteq Whole(manifest)
        BY <3>b
      <4>2. \A other \in Whole(manifest) : other[1] > 0
        BY <2>d DEF Whole
      <4>3. QED
        BY <2>c, <4>1, <4>2 DEF Places
    <3>1. Scalars'
      BY <1>0, <1>a, <2>a, <2>b, <2>c, <3>a, <3>b, <3>c, Waiters
      DEF Scalars, channelVars, hostVars, Points
    <3>2. Messages'
      BY <1>0, <1>a, <2>a, <2>b, <2>c, <3>a, <3>b, <3>c, Waiters
      DEF Messages, channelVars, hostVars
    <3>3. Owned'
      BY <1>0, <1>a, <2>a, <2>b, <2>c, <3>a, <3>b, <3>c, Waiters
      DEF Owned, channelVars, hostVars, Scalars
    <3>4. Connection'
      BY <1>0, <1>a, <2>a, <2>b, <2>c, <3>a, <3>b, <3>c, Waiters
      DEF Connection, Owned, channelVars, hostVars, Scalars
    <3>5. Answered'
      BY <1>0, <1>a, <2>a, <2>b, <2>c, <3>a, <3>b, <3>c, Waiters
      DEF Answered, Owned, channelVars, hostVars, Scalars, NotConnected,
          NoCleanup, Waiting
    <3>6. Unsent'
      BY <1>0, <1>a, <2>a, <2>b, <2>c, <3>a, <3>b, <3>c, Waiters
      DEF Unsent, NothingSent, Owned, channelVars, hostVars, Scalars,
          NotConnected, NoCleanup, Waiting
    <3>7. AskedOnce'
      BY <1>0, <1>a, <2>a, <2>b, <2>c, <3>a, <3>b, <3>c, Waiters
      DEF AskedOnce, Generates, Outcomes, Unsent, NothingSent, channelVars,
          hostVars, Scalars
    <3>8. Reported'
      BY <1>0, <1>a, <2>a, <2>b, <2>c, <3>a, <3>b, <3>c, Waiters
      DEF Reported, AskedOnce, Generates, Outcomes, channelVars, hostVars, Scalars
    <3>9. Truth'
      BY <1>0, <1>a, <2>a, <2>b, <2>c, <3>a, <3>b, <3>c, Waiters
      DEF Truth, Owned, Unsent, NothingSent, AskedOnce, Generates, Outcomes,
          Reported, channelVars, hostVars, Scalars, NotConnected, NoCleanup,
          Waiting
    <3>10. Files'
      <4>1. Places' = Whole(manifest)'
        BY <2>b, <2>c, <3>b
      <4>2. held' = held /\ produced' = produced /\ result.kind # "verified"
        BY <1>0, <1>a DEF hostVars, Owned, NoResult, Returned
      <4>3. \A other \in received' : ~(other.place[1] <= 0)
        BY <1>0, <2>a, <3>c DEF Messages, Chunks
      <4>4. QED
        BY <1>0, <1>a, <2>b, <2>d, <3>a, <4>1, <4>2, <4>3 DEF Files
    <3>11. QED
      BY <3>1, <3>2, <3>3, <3>4, <3>5, <3>6, <3>7, <3>8, <3>9, <3>10 DEF IInv
  <2>4. QED
    BY <2>1, <2>2, <2>3, <2>d
<1>2. CASE Fail(resource)
  BY <1>a, <1>2, MayFailHere, FailKeeps
<1>3. QED
  BY <1>1, <1>2 DEF Received

-----------------------------------------------------------------------------

(* The attempt as it is captured satisfies the inductive invariant. *)
LEMMA InitIInv == Init => IInv
<1> SUFFICES ASSUME Init PROVE IInv
  OBVIOUS
<1>1. /\ resource \in Resources /\ resource.kind = "unconnected" /\ ~resource.known
      /\ resource.cleanup = NoCleanup
  BY ResourceOf DEF Init, Kinds
<1>2. /\ result \in Results /\ result.kind = "none" /\ result.cleanup = NoCleanup
      /\ reported \in Cleanups
  BY ResultOf, CleanupValues DEF Init, NoResult, ResultKinds
<1>3. Scalars
  BY <1>1, <1>2 DEF Init, Scalars, Points
<1>4. Messages
  BY Constants DEF Init, Messages, NoManifest
<1>5. Owned /\ Connection /\ Answered
  BY <1>1, <1>2, Waiters
  DEF Init, Owned, Connection, Answered, NoCleanup, NotConnected
<1>a. /\ NoCleanup.kind = "none" /\ ~NoCleanup.known /\ NoCleanup # NotConnected
      /\ reported = NoCleanup
  BY DEF Init, NoCleanup, NotConnected
<1>6. Unsent /\ AskedOnce
  <2>1. Unsent
    BY <1>1, <1>a DEF Init, Unsent, NothingSent
  <2>2. AskedOnce
    BY DEF Init, AskedOnce, Generates, Outcomes
  <2>3. QED
    BY <2>1, <2>2
<1>7. Reported
  BY Waiters DEF Init, Reported
<1>8. Truth
  BY <1>1, <1>a DEF Truth
<1>9. Files
  BY <1>2 DEF Init, Files
<1>10. QED
  BY <1>3, <1>4, <1>5, <1>6, <1>7, <1>8, <1>9 DEF IInv

(* Every step keeps the inductive invariant. *)
LEMMA StepIInv == IInv /\ [Next]_vars => IInv'
<1> SUFFICES ASSUME IInv, [Next]_vars PROVE IInv'
  OBVIOUS
<1>1. CASE Start \/ Cancel \/ BecomeObsolete \/ Hash
  BY <1>1, StartKeeps, CancelKeeps, BecomeObsoleteKeeps, HashKeeps
<1>2. CASE Continue
  BY <1>2, ConnectedKeeps, ConnectFailsKeeps, RestoreKeeps, InitializedKeeps,
     GeneratedKeeps, ReceivedKeeps, VerifiedKeeps, PublishKeeps, FinishKeeps,
     SendReleaseKeeps, FinishReleaseKeeps, CancelReturnsKeeps DEF Continue
<1>3. CASE Open \/ OpenFails \/ Receive \/ ExchangeTimesOut \/ Disconnect
  BY <1>3, OpenKeeps, OpenFailsKeeps, ReceiveKeeps, ExchangeTimesOutKeeps,
     DisconnectKeeps
<1>4. CASE \/ HostInitializes \/ HostProduces \/ HostCannotProduce \/ HostReads
           \/ HostReleases \/ HostMisbehaves \/ HostRepeats \/ HostSeesEnd
  BY <1>4, HostInitializesKeeps, HostProducesKeeps, HostCannotProduceKeeps,
     HostReadsKeeps, HostReleasesKeeps, HostMisbehavesKeeps, HostRepeatsKeeps,
     HostSeesEndKeeps
<1>5. CASE UNCHANGED vars
  <2>1. /\ UNCHANGED <<at, resource, nextId, manifest, position, received, hashed>>
        /\ UNCHANGED <<result, release, reported, aborted, current>>
        /\ UNCHANGED <<channel, waiter, answer, toHost>>
        /\ UNCHANGED <<toClient, linked, held, produced, replied, faults>>
    BY <1>5 DEF vars, attemptVars, channelVars, hostVars
  <2>2. Scalars' /\ Messages' /\ Owned' /\ Connection' /\ Answered'
    BY <2>1 DEF IInv, Scalars, Messages, Owned, Connection, Answered
  <2>3. Unsent' /\ AskedOnce' /\ Reported' /\ Truth'
    BY <2>1
    DEF IInv, Unsent, NothingSent, AskedOnce, Generates, Outcomes, Reported,
                Truth
  <2>4. Files'
    BY <2>1 DEF IInv, Files, Places, Before
  <2>5. QED
    BY <2>2, <2>3, <2>4 DEF IInv
<1>6. QED
  BY <1>1, <1>2, <1>3, <1>4, <1>5 DEF Next

(* What is claimed of the generation is true of the host.  A cleanup that   *)
(* says "not-retained" has a failed reply of the host behind it, and one    *)
(* that says "not-connected" a host that was sent nothing.                  *)
LEMMA ClaimsAreTrue ==
  ASSUME IInv, NEW cleanup \in {resource.cleanup, reported}
  PROVE  True(cleanup)
<1>1. Unsent /\ Reported /\ Truth
  BY DEF IInv
<1>2. cleanup.kind = "released" => held = "released"
  BY <1>1 DEF Truth
<1>3. cleanup.kind = "not-retained" => held = "absent"
  BY <1>1 DEF Truth, Reported
<1>4. cleanup.kind = "not-connected" => held = "absent"
  BY <1>1 DEF Truth, Unsent, NothingSent
<1>5. cleanup.known => held # "absent"
  BY <1>1 DEF Truth
<1>6. QED
  BY <1>2, <1>3, <1>4, <1>5 DEF True

(* The inductive invariant implies the checked one. *)
LEMMA IInvImplies == IInv => TransferInv
<1> SUFFICES ASSUME IInv PROVE TransferInv
  OBVIOUS
<1>1. Scalars /\ Owned /\ Connection /\ Answered /\ Files
  BY DEF IInv
<1>2. VerifiedIsWhole
  BY <1>1 DEF VerifiedIsWhole, Files
<1>3. TruthfulCleanup
  <2>1. True(reported)
    BY ClaimsAreTrue
  <2>2. True(result.cleanup)
    <3>1. CASE at = "finished"
      BY <1>1, <3>1, ClaimsAreTrue DEF Owned
    <3>2. CASE at # "finished"
      BY <1>1, <3>2 DEF Owned, NoResult, Returned, NoCleanup, True
    <3>3. QED
      BY <3>1, <3>2
  <2>3. (at = "finished" /\ reported \notin {NoCleanup, Waiting}) =>
          reported \in {result.cleanup, NotConnected}
    BY <1>1 DEF Owned, Answered
  <2>4. QED
    BY <2>1, <2>2, <2>3 DEF TruthfulCleanup
<1>4. FinishedIsClosed
  BY <1>1 DEF FinishedIsClosed, Owned, Connection, Scalars
<1>5. QED
  BY <1>2, <1>3, <1>4 DEF TransferInv

(* Whatever the host, the network and the user do, in every run: files that *)
(* are returned as verified are exactly the producer's, what run() and      *)
(* cancel() say of the host's generation is true, and a run that returned   *)
(* left no socket, no exchange and no cleanup behind.                       *)
THEOREM TransferIsSafe == TransferSpec => []TransferInv
<1>1. Init => IInv
  BY InitIInv
<1>2. IInv /\ [Next]_vars => IInv'
  BY StepIInv
<1>3. IInv => TransferInv
  BY IInvImplies
<1>4. QED
  BY <1>1, <1>2, <1>3, PTL DEF TransferSpec

-----------------------------------------------------------------------------
(* The attempt as a delivery. *)

Told ==
  CASE result.kind = "none" -> "nothing yet"
    [] result.kind = "verified" -> "files"
    [] OTHER -> "refused"

(* A step that returns nothing leaves what the caller was told. *)
LEMMA SameTold ==
  ASSUME result' = result
  PROVE  Told' = Told
  BY DEF Told

(* A host produces only for a caller that has no files and holds nothing. *)
LEMMA ProducesFresh ==
  ASSUME IInv, HostProduces
  PROVE  Delivery!Produce
<1>1. AskedOnce /\ Files /\ Messages
  BY DEF IInv
<1>2. 1 \in Generates
  BY <1>1, FirstRequest DEF HostProduces, Asked, Generates
<1>3. held = "absent"
  BY <1>1, <1>2 DEF AskedOnce
<1>4. result.kind # "verified"
  BY <1>1, <1>3 DEF Files
<1>5. held' = "held" /\ result' = result
  BY DEF HostProduces, Answers, attemptVars
<1>6. QED
  BY <1>3, <1>4, <1>5, SameTold DEF Delivery!Produce, Told

(* A release of the host comes before any files are returned. *)
LEMMA ReleasesHeld ==
  ASSUME IInv, HostReleases
  PROVE  Delivery!Release
<1>1. held = "held" /\ held' = "released" /\ result' = result
  BY DEF HostReleases, Answers, attemptVars
<1>2. result.kind # "verified"
  BY <1>1 DEF IInv, Files
<1>3. QED
  BY <1>1, <1>2, SameTold DEF Delivery!Release, Told

(* run() returns once: the files of a released generation, or a refusal. *)
LEMMA ReturnsOnce ==
  ASSUME IInv, Publish \/ Finish \/ Generated, result' # result
  PROVE  Delivery!Deliver \/ Delivery!Refuse
<1>1. at # "finished" /\ result = NoResult /\ held' = held
  BY DEF Publish, Finish, Generated, Resumes, IInv, Owned, hostVars
<1>2. Told = "nothing yet"
  BY <1>1 DEF Told, NoResult, Returned
<1>3. CASE Publish
  <2>1. /\ resource.cleanup.kind = "released" /\ result'.kind = "verified"
    BY <1>3 DEF Publish, Fail, Returned
  <2>2. held = "released"
    BY <2>1 DEF IInv, Truth
  <2>3. QED
    BY <1>1, <1>2, <2>1, <2>2 DEF Delivery!Deliver, Told
<1>4. CASE Finish \/ Generated
  <2>1. result'.kind \in {"failed", "discarded", "generation-failed"}
    <3>1. CASE Finish
      BY <3>1 DEF Finish, Returned
    <3>2. CASE Generated
      <4>1. result' = Returned("generation-failed", NotRetained)
        BY <3>2 DEF Generated, Fail, Read, Ask
      <4>2. QED
        BY <4>1 DEF Returned
    <3>3. QED
      BY <1>4, <3>1, <3>2
  <2>2. QED
    BY <1>1, <1>2, <2>1 DEF Delivery!Refuse, Told
<1>5. QED
  BY <1>3, <1>4

(* Every other step leaves what the delivery speaks of. *)
LEMMA OthersStutter ==
  ASSUME IInv,
         \/ Start \/ Cancel \/ BecomeObsolete \/ Hash
         \/ Connected \/ ConnectFails \/ Restore \/ Initialized \/ Received
         \/ Verified \/ SendRelease \/ FinishRelease \/ CancelReturns
         \/ Open \/ OpenFails \/ Receive \/ ExchangeTimesOut \/ Disconnect
         \/ HostInitializes \/ HostCannotProduce \/ HostReads \/ HostMisbehaves
         \/ HostRepeats
  PROVE  UNCHANGED <<held, result>>
<1>1. CASE Start \/ Cancel \/ BecomeObsolete \/ Hash
  BY <1>1 DEF Start, Cancel, BecomeObsolete, Hash, Fail, hostVars, attemptVars
<1>2. CASE Connected \/ ConnectFails \/ Restore \/ Initialized \/ Received
  BY <1>2 DEF Connected, ConnectFails, Restore, Initialized, Received, Fail, Ask,
              Read, hostVars
<1>3. CASE Verified \/ SendRelease \/ FinishRelease \/ CancelReturns
  BY <1>3 DEF Verified, SendRelease, FinishRelease, CancelReturns, Fail, hostVars,
              attemptVars
<1>4. CASE Open \/ OpenFails \/ Receive \/ ExchangeTimesOut \/ Disconnect
  BY <1>4 DEF Open, OpenFails, Receive, ExchangeTimesOut, Disconnect, hostVars,
              attemptVars
<1>5. CASE \/ HostInitializes \/ HostCannotProduce \/ HostReads
           \/ HostMisbehaves \/ HostRepeats
  BY <1>5 DEF HostInitializes, HostCannotProduce, HostReads, HostMisbehaves,
              HostRepeats, Answers, attemptVars
<1>6. QED
  BY <1>1, <1>2, <1>3, <1>4, <1>5

(* Every step of the attempt is a step of the delivery, or none. *)
LEMMA StepDelivers ==
  ASSUME IInv, [Next]_vars
  PROVE  [Delivery!Next]_(Delivery!vars)
<1>1. CASE HostProduces \/ HostReleases
  BY <1>1, ProducesFresh, ReleasesHeld DEF Delivery!Next
<1>2. CASE HostSeesEnd
  <2>1. result' = result /\ held' = IF held = "held" THEN "dropped" ELSE held
    BY <1>2 DEF HostSeesEnd, attemptVars
  <2>2. QED
    BY <2>1, SameTold DEF Delivery!Next, Delivery!Drop, Delivery!vars, Told
<1>3. CASE Publish \/ Finish \/ Generated
  <2>1. CASE result' = result
    <3>1. held' = held
      BY <1>3 DEF Publish, Finish, Generated, hostVars
    <3>2. QED
      BY <2>1, <3>1, SameTold DEF Delivery!vars, Told
  <2>2. CASE result' # result
    BY <1>3, <2>2, ReturnsOnce DEF Delivery!Next
  <2>3. QED
    BY <2>1, <2>2
<1>4. CASE UNCHANGED <<held, result>>
  BY <1>4, SameTold DEF Delivery!vars, Told
<1>5. CASE UNCHANGED vars
  BY <1>4, <1>5 DEF vars, attemptVars, hostVars
<1>6. QED
  BY <1>1, <1>2, <1>3, <1>4, <1>5, OthersStutter DEF Next, Continue

(* An attempt is a delivery: the host keeps at most one generation for it,  *)
(* and run() returns files only after the host released that generation.    *)
THEOREM TransferIsADelivery == TransferSpec => KeepsDelivery
<1>1. Init => Delivery!Init
  BY DEF Init, Delivery!Init, NoResult, Returned
<1>2. Init => IInv
  BY InitIInv
<1>3. IInv /\ [Next]_vars => IInv'
  BY StepIInv
<1>4. IInv /\ [Next]_vars => [Delivery!Next]_(Delivery!vars)
  BY StepDelivers
<1>5. QED
  BY <1>1, <1>2, <1>3, <1>4, PTL DEF TransferSpec, KeepsDelivery, Delivery!Spec

=============================================================================
