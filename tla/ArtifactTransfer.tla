--------------------------- MODULE ArtifactTransfer ---------------------------
(* ArtifactTransferAttempt of artifact-client: one captured input, one run,  *)
(* one owning connection.  The run connects, initializes, has a generation   *)
(* produced, reads every file of its manifest, verifies all of them and      *)
(* releases the generation; cancel() and every failure start one cleanup.    *)
(* Between two awaits the code runs to completion, so an action is the code  *)
(* from one await to the next.  The host, the network and the digest of the  *)
(* platform are external.                                                    *)
EXTENDS Integers, Sequences, FiniteSets

CONSTANTS
  Inventories,  \* what a producer may produce: per file, the reads it takes
  MaxFaults     \* bound on the frames and refusals that a bad host adds

ASSUME TransferAssumption ==
  /\ Inventories \subseteq Seq(Nat \ {0})
  /\ MaxFaults \in Nat

VARIABLES
  at,         \* where run() is
  resource,   \* #resource
  nextId,     \* #nextId
  aborted,    \* #abort.signal.aborted
  current,    \* effects.isCurrent()
  manifest,   \* the manifest that run() received
  position,   \* the file and the read that run() asks for
  received,   \* the chunks that run() accepted
  hashed,     \* the files whose digest was compared
  release,    \* the task that releases: "none", "queued", "sent", "done"
  result,     \* what run() returned
  reported,   \* what cancel() returned
  channel,    \* the socket and its channel
  waiter,     \* whose exchange is pending
  answer,     \* the settled exchange that its owner has not resumed from
  toHost,     \* requests under way
  toClient,   \* replies under way
  linked,     \* the host has not seen the connection end
  held,       \* the host's generation of this connection
  produced,   \* its inventory
  replied,    \* every reply that the host wrote
  faults      \* faults so far

attemptVars == <<at, resource, nextId, manifest, position, received, hashed,
                 result>>
channelVars == <<channel, waiter, answer, toHost>>
hostVars == <<toClient, linked, held, produced, replied, faults>>
vars == <<attemptVars, release, reported, aborted, current, channelVars, hostVars>>

-----------------------------------------------------------------------------
(* Values. *)

Owners == {"run", "release"}
Nobody == "nobody"
NoManifest == <<>>
NoChunk == [place |-> <<0, 0>>, genuine |-> FALSE]

(* A request and a reply; `place` is the file and the read within it.      *)
Request(id, method, place) == [id |-> id, method |-> method, place |-> place]
Reply(id, kind, inventory, chunk) ==
  [id |-> id, kind |-> kind, inventory |-> inventory, chunk |-> chunk]
Plain(id, kind) == Reply(id, kind, NoManifest, NoChunk)
Unreadable == Plain(0, "unreadable")

(* What an exchange came to when it is no reply of the host. *)
NoReply == Plain(0, "none")
Rejected == Plain(0, "rejected")

(* ArtifactCleanup; `known` when it names the generation. *)
NoCleanup == [kind |-> "none", known |-> FALSE]
Waiting == [kind |-> "waiting", known |-> FALSE]
NotConnected == [kind |-> "not-connected", known |-> FALSE]
NotRetained == [kind |-> "not-retained", known |-> FALSE]
Released == [kind |-> "released", known |-> TRUE]
Closed(reason, known) == [kind |-> reason, known |-> known]

Whole(inventory) ==
  UNION {{<<file, read>> : read \in 1..inventory[file]} :
           file \in 1..Len(inventory)}

Resource(kind, known) == [kind |-> kind, known |-> known, cleanup |-> NoCleanup]
Ended(cleanup) == [kind |-> "closed", known |-> cleanup.known, cleanup |-> cleanup]

Returned(kind, cleanup) == [kind |-> kind, cleanup |-> cleanup]
NoResult == Returned("none", NoCleanup)

(* #current *)
IsCurrent == ~aborted /\ current

Init ==
  /\ at = "captured"
  /\ resource = Resource("unconnected", FALSE)
  /\ nextId = 2
  /\ aborted = FALSE
  /\ current = TRUE
  /\ manifest = NoManifest
  /\ position = <<1, 1>>
  /\ received = {}
  /\ hashed = 0
  /\ release = "none"
  /\ result = NoResult
  /\ reported = NoCleanup
  /\ channel = "none"
  /\ waiter = Nobody
  /\ answer = [owner \in Owners |-> NoReply]
  /\ toHost = <<>>
  /\ toClient = <<>>
  /\ linked = FALSE
  /\ held = "absent"
  /\ produced = NoManifest
  /\ replied = {}
  /\ faults = 0

-----------------------------------------------------------------------------
(* The channel: ArtifactRpcChannel. *)

(* Fault: close() leaves the pending exchange to its timeout. *)
CloseChannelSilently ==
  IF channel = "open"
  THEN channel' = "closed" /\ waiter' = Nobody /\ UNCHANGED answer
  ELSE UNCHANGED <<channel, waiter, answer>>

(* close(): the socket goes, and a pending exchange is rejected. *)
CloseChannel ==
  IF channel = "open"
  THEN /\ channel' = "closed"
       /\ waiter' = Nobody
       /\ answer' = IF waiter = Nobody THEN answer
                    ELSE [answer EXCEPT ![waiter] = Rejected]
  ELSE UNCHANGED <<channel, waiter, answer>>

(* exchange(): refused at once when the channel is closed or in use. *)
Exchange(owner, request) ==
  IF channel = "open" /\ waiter = Nobody
  THEN /\ waiter' = owner
       /\ toHost' = Append(toHost, request)
       /\ answer' = [answer EXCEPT ![owner] = NoReply]
       /\ UNCHANGED channel
  ELSE /\ answer' = [answer EXCEPT ![owner] = Rejected]
       /\ UNCHANGED <<channel, waiter, toHost>>

(* receive(): a reply nobody waits for, or one that is no text frame of    *)
(* the limit, closes the attempt.                                          *)
Receive ==
  /\ toClient # <<>>
  /\ toClient' = Tail(toClient)
  /\ IF channel = "open" /\ waiter # Nobody /\ Head(toClient).kind # "unreadable"
     THEN /\ answer' = [answer EXCEPT ![waiter] = Head(toClient)]
          /\ waiter' = Nobody
          /\ UNCHANGED channel
     ELSE CloseChannel
  /\ UNCHANGED <<attemptVars, release, reported, aborted, current, toHost,
                 linked, held, produced, replied, faults>>

(* The timeout of a pending exchange. *)
ExchangeTimesOut ==
  /\ waiter # Nobody
  /\ CloseChannel
  /\ UNCHANGED <<attemptVars, release, reported, aborted, current, toHost,
                 hostVars>>

(* The socket fails or disconnects. *)
Disconnect ==
  /\ channel = "open"
  /\ CloseChannel
  /\ UNCHANGED <<attemptVars, release, reported, aborted, current, toHost,
                 hostVars>>

(* openArtifactChannel(): open, or an error, an end or the timeout. *)
Open ==
  /\ channel = "opening"
  /\ channel' = "open"
  /\ linked' = TRUE
  /\ UNCHANGED <<attemptVars, release, reported, aborted, current, waiter,
                 answer, toHost, toClient, held, produced, replied, faults>>

OpenFails ==
  /\ channel = "opening"
  /\ channel' = "refused"
  /\ UNCHANGED <<attemptVars, release, reported, aborted, current, waiter,
                 answer, toHost, hostVars>>

-----------------------------------------------------------------------------
(* The cleanup: the first owner decides, and every later one is given its  *)
(* answer.                                                                 *)

Reason(kind) ==
  IF kind = "exchanging" THEN "pending-exchange" ELSE "unknown-retention"

(* Fault: a pending exchange is left to come to its end. *)
CleanupExchanged(owned) ==
  CASE owned.kind \in {"closed", "releasing"} ->
         /\ resource' = owned
         /\ UNCHANGED <<release, channel, waiter, answer>>
    [] owned.kind = "retained" /\ channel = "open" ->
         /\ resource' = Resource("releasing", TRUE)
         /\ release' = "queued"
         /\ UNCHANGED <<channel, waiter, answer>>
    [] OTHER ->
         /\ IF owned.kind = "exchanging"
            THEN UNCHANGED <<channel, waiter, answer>> ELSE CloseChannel
         /\ resource' = Ended(Closed(Reason(owned.kind), owned.known))
         /\ UNCHANGED release

Cleanup(owned) ==
  CASE owned.kind \in {"closed", "releasing"} ->
         /\ resource' = owned
         /\ UNCHANGED <<release, channel, waiter, answer>>
    [] owned.kind = "retained" /\ channel = "open" ->
         /\ resource' = Resource("releasing", TRUE)
         /\ release' = "queued"
         /\ UNCHANGED <<channel, waiter, answer>>
    [] owned.kind = "unconnected" ->
         /\ resource' = Ended(NotConnected)
         /\ UNCHANGED <<release, channel, waiter, answer>>
    [] OTHER ->
         /\ CloseChannel
         /\ resource' = Ended(Closed(Reason(owned.kind), owned.known))
         /\ UNCHANGED release

(* cancel().  An abort during the setup refuses the socket. *)
Cancel ==
  /\ ~aborted
  /\ aborted' = TRUE
  /\ IF channel = "opening"
     THEN /\ channel' = "refused"
          /\ resource' = Ended(NotConnected)
          /\ UNCHANGED <<release, waiter, answer>>
     ELSE Cleanup(resource)
  /\ reported' = IF resource'.kind = "closed" THEN resource'.cleanup ELSE Waiting
  /\ UNCHANGED <<at, nextId, manifest, position, received, hashed, result,
                 current, toHost, hostVars>>

(* The promise of a cancel() that waits for the release resolves. *)
CancelReturns ==
  /\ reported = Waiting
  /\ resource.kind = "closed"
  /\ reported' = resource.cleanup
  /\ UNCHANGED <<attemptVars, release, aborted, current, channelVars, hostVars>>

(* decodeArtifactReleaseReply *)
IsAcknowledgement(reply) == reply.id = nextId /\ reply.kind = "released"

(* The release of a retained generation, sent as a task of its own. *)
SendRelease ==
  /\ release = "queued"
  /\ release' = "sent"
  /\ nextId' = nextId + 1
  /\ Exchange("release", Request(nextId + 1, "release", <<0, 0>>))
  /\ UNCHANGED <<at, resource, manifest, position, received, hashed, result,
                 reported, aborted, current, hostVars>>

FinishRelease ==
  /\ release = "sent" /\ answer["release"] # NoReply
  /\ release' = "done"
  /\ resource' = Ended(IF IsAcknowledgement(answer["release"])
                       THEN Released
                       ELSE Closed("release-failed", TRUE))
  /\ CloseChannel
  /\ UNCHANGED <<at, nextId, manifest, position, received, hashed, result,
                 reported, aborted, current, toHost, hostVars>>

-----------------------------------------------------------------------------
(* run(): from one await to the next. *)

fileVars == <<manifest, position, received, hashed>>

(* The catch of run(): the cleanup starts, and run() waits for it. *)
Fail(owned) ==
  /\ at' = "failing"
  /\ Cleanup(owned)
  /\ UNCHANGED <<nextId, fileVars, result, toHost>>

(* run() sends a request and waits for its reply. *)
Ask(point, known, request) ==
  /\ at' = point
  /\ resource' = Resource("exchanging", known)
  /\ Exchange("run", request)
  /\ UNCHANGED <<release, result>>

Start ==
  /\ at = "captured"
  /\ IF IsCurrent
     THEN /\ at' = "connecting"
          /\ channel' = "opening"
          /\ UNCHANGED <<resource, nextId, fileVars, result, release, waiter,
                         answer, toHost>>
     ELSE Fail(resource)
  /\ UNCHANGED <<reported, aborted, current, hostVars>>

(* A connection that opens after a cancellation is owned, then given up.   *)
Connected ==
  /\ at = "connecting" /\ channel \in {"open", "closed"}
  /\ IF IsCurrent
     THEN /\ Ask("initializing", FALSE, Request(1, "initialize", <<0, 0>>))
          /\ UNCHANGED <<nextId, fileVars>>
     ELSE Fail(Resource("connected", FALSE))
  /\ UNCHANGED <<reported, aborted, current, hostVars>>

ConnectFails ==
  /\ at = "connecting" /\ channel = "refused"
  /\ Fail(resource)
  /\ UNCHANGED <<reported, aborted, current, hostVars>>

(* The finally of #exchange: the connection is owned as before, unless a   *)
(* cancellation took it over.                                              *)
Restore ==
  /\ resource.kind = "exchanging" /\ answer["run"] # NoReply
  /\ resource' = Resource(IF resource.known THEN "retained" ELSE "connected",
                          resource.known)
  /\ UNCHANGED <<at, nextId, fileVars, result, release, reported, aborted,
                 current, channelVars, hostVars>>

Resumes(point) ==
  /\ at = point /\ answer["run"] # NoReply /\ resource.kind # "exchanging"

Initialized ==
  /\ Resumes("initializing")
  /\ IF /\ IsCurrent
        /\ answer["run"].id = 1 /\ answer["run"].kind = "initialized"
     THEN /\ Ask("generating", FALSE, Request(2, "generate", <<0, 0>>))
          /\ UNCHANGED <<nextId, fileVars>>
     ELSE Fail(resource)
  /\ UNCHANGED <<reported, aborted, current, hostVars>>

(* The next read, under a request identity of its own. *)
Read(place) ==
  /\ nextId' = nextId + 1
  /\ position' = place
  /\ Ask("receiving", TRUE, Request(nextId + 1, "read", place))

(* decodeArtifactGenerateReply.  The manifest is learned before run() asks *)
(* whether it is obsolete.                                                 *)
IsManifest(reply) == reply.id = 2 /\ reply.kind = "ready"
IsFailure(reply) == reply.id = 2 /\ reply.kind = "failed"

(* Who owns the connection once the reply was read. *)
Learned ==
  IF IsManifest(answer["run"]) /\ resource.kind = "connected"
  THEN Resource("retained", TRUE)
  ELSE resource

Generated ==
  /\ Resumes("generating")
  /\ \/ /\ IsManifest(answer["run"]) /\ IsCurrent
        /\ manifest' = answer["run"].inventory
        /\ IF manifest' = <<>>
           THEN /\ at' = "verifying"
                /\ resource' = Learned
                /\ UNCHANGED <<nextId, position, result, release, channelVars>>
           ELSE Read(<<1, 1>>)
        /\ UNCHANGED <<received, hashed>>
     \/ /\ IsFailure(answer["run"]) /\ IsCurrent
        /\ CloseChannel
        /\ resource' = Ended(NotRetained)
        /\ result' = Returned("generation-failed", NotRetained)
        /\ at' = "finished"
        /\ UNCHANGED <<nextId, fileVars, release, toHost>>
     \/ /\ IsCurrent => ~IsManifest(answer["run"]) /\ ~IsFailure(answer["run"])
        /\ Fail(Learned)
  /\ UNCHANGED <<reported, aborted, current, hostVars>>

(* decodeArtifactReadReply *)
IsChunk(reply) ==
  reply.id = nextId /\ reply.kind = "chunk" /\ reply.chunk.place = position

Received ==
  /\ Resumes("receiving")
  /\ \/ /\ IsCurrent /\ IsChunk(answer["run"])
        /\ received' = received \cup {answer["run"].chunk}
        /\ \/ /\ position[2] < manifest[position[1]]
              /\ Read(<<position[1], position[2] + 1>>)
           \/ /\ position[2] = manifest[position[1]]
              /\ position[1] < Len(manifest)
              /\ Read(<<position[1] + 1, 1>>)
           \/ /\ position = <<Len(manifest), manifest[Len(manifest)]>>
              /\ at' = "verifying"
              /\ UNCHANGED <<nextId, position, resource, result, release,
                             channelVars>>
        /\ UNCHANGED <<manifest, hashed>>
     \/ /\ ~(IsCurrent /\ IsChunk(answer["run"]))
        /\ Fail(resource)
  /\ UNCHANGED <<reported, aborted, current, hostVars>>

(* VerifiedArtifactSet.verify: the digest of a file is awaited, and may be *)
(* unavailable.                                                            *)
Genuine(file) ==
  \A chunk \in received : chunk.place[1] = file => chunk.genuine

(* Fault: the digests are not compared. *)
HashUnchecked ==
  /\ at = "verifying" /\ hashed < Len(manifest)
  /\ hashed' = hashed + 1
  /\ UNCHANGED <<at, resource, nextId, manifest, position, received, result,
                 release, channelVars, reported, aborted, current, hostVars>>

Hash ==
  /\ at = "verifying" /\ hashed < Len(manifest)
  /\ \/ IF IsCurrent /\ Genuine(hashed + 1)
        THEN /\ hashed' = hashed + 1
             /\ UNCHANGED <<at, resource, nextId, manifest, position, received,
                            result, release, channelVars>>
        ELSE Fail(resource)
     \/ Fail(resource)
  /\ UNCHANGED <<reported, aborted, current, hostVars>>

Verified ==
  /\ at = "verifying" /\ hashed = Len(manifest)
  /\ IF IsCurrent
     THEN /\ at' = "publishing"
          /\ Cleanup(resource)
          /\ UNCHANGED <<nextId, fileVars, result, toHost>>
     ELSE Fail(resource)
  /\ UNCHANGED <<reported, aborted, current, hostVars>>

(* Fault: the files are returned whatever became of the release. *)
PublishUnreleased ==
  /\ at = "publishing" /\ resource.kind = "closed"
  /\ IF IsCurrent
     THEN /\ result' = Returned("verified", resource.cleanup)
          /\ at' = "finished"
          /\ UNCHANGED <<nextId, resource, fileVars, release, channelVars>>
     ELSE Fail(resource)
  /\ UNCHANGED <<reported, aborted, current, hostVars>>

Publish ==
  /\ at = "publishing" /\ resource.kind = "closed"
  /\ IF IsCurrent /\ resource.cleanup.kind = "released"
     THEN /\ result' = Returned("verified", resource.cleanup)
          /\ at' = "finished"
          /\ UNCHANGED <<nextId, resource, fileVars, release, channelVars>>
     ELSE Fail(resource)
  /\ UNCHANGED <<reported, aborted, current, hostVars>>

Finish ==
  /\ at = "failing" /\ resource.kind = "closed"
  /\ at' = "finished"
  /\ result' = Returned(IF IsCurrent THEN "failed" ELSE "discarded",
                        resource.cleanup)
  /\ UNCHANGED <<nextId, resource, fileVars, release, reported, aborted,
                 current, channelVars, hostVars>>

(* The page changes its context, or the command was stopped. *)
BecomeObsolete ==
  /\ current /\ at # "finished"
  /\ current' = FALSE
  /\ UNCHANGED <<attemptVars, release, reported, aborted, channelVars, hostVars>>

-----------------------------------------------------------------------------
(* The host: it answers requests in order and keeps what it generated for  *)
(* a connection until it is released or the connection ends.               *)

Answers(reply) ==
  /\ toClient' = Append(toClient, reply)
  /\ replied' = replied \cup {reply}
  /\ toHost' = Tail(toHost)
  /\ UNCHANGED <<attemptVars, release, reported, aborted, current, channel,
                 waiter, answer, linked>>

Asked(method) == linked /\ toHost # <<>> /\ Head(toHost).method = method

HostInitializes ==
  /\ Asked("initialize")
  /\ Answers(Plain(Head(toHost).id, "initialized"))
  /\ UNCHANGED <<held, produced, faults>>

HostProduces ==
  /\ Asked("generate")
  /\ \E inventory \in Inventories :
       /\ produced' = inventory
       /\ Answers(Reply(Head(toHost).id, "ready", inventory, NoChunk))
  /\ held' = "held"
  /\ UNCHANGED faults

HostCannotProduce ==
  /\ Asked("generate")
  /\ Answers(Plain(Head(toHost).id, "failed"))
  /\ UNCHANGED <<held, produced, faults>>

HostReads ==
  /\ Asked("read") /\ held = "held"
  /\ Answers(Reply(Head(toHost).id, "chunk", NoManifest,
                   [place |-> Head(toHost).place, genuine |-> TRUE]))
  /\ UNCHANGED <<held, produced, faults>>

HostReleases ==
  /\ Asked("release") /\ held = "held"
  /\ held' = "released"
  /\ Answers(Plain(Head(toHost).id, "released"))
  /\ UNCHANGED <<produced, faults>>

(* It refuses a request, or sends other bytes, or those of another read.   *)
HostMisbehaves ==
  /\ linked /\ toHost # <<>> /\ faults < MaxFaults
  /\ faults' = faults + 1
  /\ \/ Answers(Plain(Head(toHost).id, "refused"))
     \/ /\ Head(toHost).method = "read"
        /\ \E place \in Whole(produced) :
             Answers(Reply(Head(toHost).id, "chunk", NoManifest,
                           [place |-> place, genuine |-> FALSE]))
  /\ UNCHANGED <<held, produced>>

(* It repeats an earlier reply, or sends what is no reply. *)
HostRepeats ==
  /\ linked /\ faults < MaxFaults
  /\ faults' = faults + 1
  /\ \E reply \in replied \cup {Unreadable} : toClient' = Append(toClient, reply)
  /\ UNCHANGED <<attemptVars, release, reported, aborted, current, channelVars,
                 linked, held, produced, replied>>

(* It learns that the connection ended. *)
HostSeesEnd ==
  /\ linked /\ channel = "closed"
  /\ linked' = FALSE
  /\ held' = IF held = "held" THEN "dropped" ELSE held
  /\ toHost' = <<>>
  /\ toClient' = <<>>
  /\ UNCHANGED <<attemptVars, release, reported, aborted, current, channel,
                 waiter, answer, produced, replied, faults>>

-----------------------------------------------------------------------------
Continue ==
  \/ Connected \/ ConnectFails \/ Restore \/ Initialized \/ Generated
  \/ Received \/ Verified \/ Publish \/ Finish
  \/ SendRelease \/ FinishRelease \/ CancelReturns

Next ==
  \/ Start \/ Cancel \/ BecomeObsolete \/ Continue \/ Hash
  \/ Open \/ OpenFails \/ Receive \/ ExchangeTimesOut \/ Disconnect
  \/ HostInitializes \/ HostProduces \/ HostCannotProduce \/ HostReads
  \/ HostReleases \/ HostMisbehaves \/ HostRepeats \/ HostSeesEnd

TransferSpec == Init /\ [][Next]_vars

(* The event loop continues what is settled, the two timers expire, and a  *)
(* host notices the end of a connection.  Nothing is assumed of digests,   *)
(* of replies, or of the user.                                             *)
FairTransferSpec ==
  /\ TransferSpec
  /\ WF_vars(Continue)
  /\ WF_vars(OpenFails)
  /\ WF_vars(ExchangeTimesOut)
  /\ WF_vars(HostSeesEnd)

-----------------------------------------------------------------------------
(* Properties. *)

Points == {"captured", "connecting", "initializing", "generating", "receiving",
           "verifying", "publishing", "failing", "finished"}

(* What run() returns as verified is every file that the host produced,    *)
(* with its own bytes.                                                     *)
VerifiedIsWhole ==
  result.kind = "verified" =>
    received = {[place |-> place, genuine |-> TRUE] : place \in Whole(produced)}

(* What run() and cancel() say of the host's generation is true, and they  *)
(* agree, except that cancel() may answer before a late connection opens.  *)
True(cleanup) ==
  /\ cleanup.kind = "released" => held = "released"
  /\ cleanup.kind \in {"not-connected", "not-retained"} => held = "absent"
  /\ cleanup.known => held # "absent"

TruthfulCleanup ==
  /\ True(result.cleanup)
  /\ True(reported)
  /\ (at = "finished" /\ reported \notin {NoCleanup, Waiting}) =>
       reported \in {result.cleanup, NotConnected}

(* When run() has returned, nothing of it is left: no socket, no pending   *)
(* exchange, no cleanup.                                                   *)
FinishedIsClosed ==
  at = "finished" =>
    /\ channel \notin {"opening", "open"}
    /\ waiter = Nobody
    /\ release \in {"none", "done"}
    /\ resource.kind = "closed" /\ result.cleanup = resource.cleanup

TransferInv == VerifiedIsWhole /\ TruthfulCleanup /\ FinishedIsClosed

(* The files reach the caller only after the host gave its generation back. *)
Delivery == INSTANCE ArtifactDelivery WITH
  delivered <- CASE result.kind = "none" -> "nothing yet"
                 [] result.kind = "verified" -> "files"
                 [] OTHER -> "refused"

KeepsDelivery == Delivery!Spec

(* A cancelled attempt, and one that has returned, leaves nothing at the   *)
(* host, even while a digest is pending; cancel() is answered.             *)
GivesBack ==
  (aborted \/ at = "finished") ~> [](held # "held" /\ reported # Waiting)

(* Whatever the host and the network do, run() reaches its verification or *)
(* returns, and returns when its verification is over.                     *)
RunEnds ==
  /\ at = "connecting" ~> at \in {"verifying", "finished"}
  /\ at \in {"publishing", "failing"} ~> at = "finished"
=============================================================================
