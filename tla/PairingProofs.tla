--------------------------- MODULE PairingProofs ----------------------------
(***************************************************************************)
(* Proofs about Pairing, for every number of codes, credentials, workers,  *)
(* connections and crashes: its types, that a revocation drops every       *)
(* connection the hub holds, that the ceremony implements DeviceCodes, and *)
(* that the credential file keeps what was confirmed.                      *)
(***************************************************************************)
EXTENDS Pairing, FiniteSetTheorems, TLAPS

-----------------------------------------------------------------------------
(* Types *)

\* TypeOK without the bound on outstanding codes.
Types ==
  /\ codes \in [CodeIDs -> Code \cup {NoCode}]
  /\ creds \in Store
  /\ job \in [Workers -> Job]
  /\ feeds \in [Feeds -> Feed]
  /\ path \in Inodes \cup {NoFile} /\ tmp \in Inodes \cup {NoFile}
  /\ data \in [Inodes -> Store \cup {Empty, Torn}]
  /\ now \in Nat /\ up \in BOOLEAN /\ crashes \in Nat
  /\ asked \in 0..MaxCodes
  /\ source \in [CredIDs -> CodeIDs \cup {NoID}]
  /\ confirmed \subseteq CredIDs \X {"revoke", "issue"}
  /\ overlapped \in BOOLEAN

LEMMA IdleType == NoCreds \in Store /\ Idle \in Job /\ Closed \in Feed
  BY DEF NoCreds, Store, Idle, Job, Closed, Feed

LEMMA UnexpiredType ==
  ASSUME Types
  PROVE  /\ Unexpired \in [CodeIDs -> Code \cup {NoCode}]
         /\ \A k \in CodeIDs : Unexpired[k] # NoCode => Unexpired[k] = codes[k]
  BY DEF Types, Unexpired

\* A connection names a credential, so does a job, and while the process is down
\* there are no connections: credentials are only forgotten with the process.
Named ==
  /\ \A w \in Workers : job[w].pc # "idle" => job[w].cred \in CredIDs
  /\ \A f \in Feeds : feeds[f].stage # "closed"
       => feeds[f].cred \in CredIDs /\ creds[feeds[f].cred] # NoCred
  /\ ~up => \A f \in Feeds : feeds[f] = Closed

LEMMA TypesInit == Init => Types /\ Named
<1> SUFFICES ASSUME Init PROVE Types /\ Named
  OBVIOUS
<1>1. asked \in 0..MaxCodes
  BY PairingAssumption DEF PairingAssumption, Init
<1>2. codes \in [CodeIDs -> Code \cup {NoCode}] /\ source \in [CredIDs -> CodeIDs \cup {NoID}]
  BY DEF Init
<1>3. data \in [Inodes -> Store \cup {Empty, Torn}]
  BY DEF Init
<1>. QED
  BY <1>1, <1>2, <1>3, IdleType DEF Init, Types, Named, Closed, Idle

LEMMA TypesStep == Types /\ Named /\ [Next]_vars => Types'
<1> SUFFICES ASSUME Types, Named, [Next]_vars PROVE Types'
  OBVIOUS
<1> USE PairingAssumption, IdleType DEF PairingAssumption
<1>1. ASSUME RequestCode PROVE Types'
  <2>1. /\ asked + 1 \in CodeIDs /\ asked' = asked + 1 /\ asked' \in 0..MaxCodes
        /\ RoleAsked[asked + 1] \in Roles /\ now + CodeTTL \in Nat
    BY <1>1 DEF RequestCode, Types, CodeIDs
  <2>2. [role |-> RoleAsked[asked + 1], expiresAt |-> now + CodeTTL, approved |-> FALSE]
          \in Code
    BY <2>1 DEF Code
  <2>3. codes' \in [CodeIDs -> Code \cup {NoCode}]
    BY <1>1, <2>2, UnexpiredType DEF RequestCode
  <2>. QED
    BY <1>1, <2>1, <2>3 DEF RequestCode, Types, files
<1>2. ASSUME Pending PROVE Types'
  BY <1>2, UnexpiredType DEF Pending, Types, files
<1>3. ASSUME NEW k \in CodeIDs, Approve(k) PROVE Types'
  <2>1. codes' \in [CodeIDs -> Code \cup {NoCode}]
    BY <1>3, UnexpiredType DEF Approve, Code
  <2>. QED
    BY <1>3, <2>1 DEF Approve, Types, files
<1>4. ASSUME NEW k \in CodeIDs, Deny(k) PROVE Types'
  BY <1>4 DEF Deny, Types, files
<1>5. ASSUME NEW k \in CodeIDs, RedeemFails(k) PROVE Types'
  BY <1>5, UnexpiredType DEF RedeemFails, Types, files
<1>6. ASSUME NEW w \in Workers, NEW k \in CodeIDs, Redeem(w, k) PROVE Types'
  <2>1. codes' \in [CodeIDs -> Code \cup {NoCode}]
    BY <1>6, UnexpiredType DEF Redeem
  <2>2. PICK c \in CredIDs : Issue(w, k, c)
    BY <1>6 DEF Redeem
  <2>3. codes[k] \in Code
    BY <1>6, UnexpiredType DEF Redeem, Types
  <2>4. creds' \in Store
    BY <2>2, <2>3 DEF Issue, Types, Store, Credential, Code
  <2>5. [Idle EXCEPT !.pc = "export", !.does = "issue", !.cred = c] \in Job
    BY DEF Idle, Job
  <2>6. job' \in [Workers -> Job] /\ source' \in [CredIDs -> CodeIDs \cup {NoID}]
    BY <2>2, <2>5 DEF Issue, Types
  <2>. QED
    BY <2>1, <2>2, <2>4, <2>6 DEF Issue, Types, files
<1>7. ASSUME NEW w \in Workers, NEW c \in CredIDs, Revoke(w, c) PROVE Types'
  <2>1. creds[c] \in Credential
    BY <1>7 DEF Revoke, Types, Store
  <2>2. creds' \in Store
    BY <1>7, <2>1 DEF Revoke, Types, Store, Credential
  <2>3. [Idle EXCEPT !.pc = "drop", !.cred = c] \in Job
    BY DEF Idle, Job
  <2>4. job' \in [Workers -> Job]
    BY <1>7, <2>3 DEF Revoke, Types
  <2>. QED
    BY <1>7, <2>2, <2>4 DEF Revoke, Types, files
<1>8. ASSUME NEW w \in Workers, DropToken(w) PROVE Types'
  <2>1. job' \in [Workers -> Job]
    BY <1>8 DEF DropToken, Types, Job
  <2>2. feeds' \in [Feeds -> Feed]
    BY <1>8 DEF DropToken, Types
  <2>. QED
    BY <1>8, <2>1, <2>2 DEF DropToken, Types, ceremony, files
<1>9. ASSUME NEW w \in Workers, Export(w) PROVE Types'
  <2> DEFINE Others == {v \in Workers \ {w} : Saving(v)}
  <2>1. [job[w] EXCEPT !.pc = "create", !.out = creds, !.alone = (Others = {})] \in Job
    BY DEF Types, Job
  <2>2. \A v \in Workers : [job[v] EXCEPT !.alone = FALSE] \in Job
    BY DEF Types, Job
  <2>3. job' = [v \in Workers |->
          CASE v = w -> [job[w] EXCEPT !.pc = "create", !.out = creds,
                                       !.alone = (Others = {})]
            [] v \in Others -> [job[v] EXCEPT !.alone = FALSE]
            [] OTHER -> job[v]]
    BY <1>9 DEF Export
  <2>4. job' \in [Workers -> Job]
    <3> HIDE DEF Others
    <3>. QED
      BY <2>1, <2>2, <2>3 DEF Types
  <2>. QED
    BY <1>9, <2>4 DEF Export, Types, ceremony, files
<1>10. ASSUME NEW w \in Workers, Create(w) PROVE Types'
  <2>1. PICK i \in Inodes :
          /\ tmp' = i /\ data' = [data EXCEPT ![i] = Empty]
          /\ job' = [job EXCEPT ![w].pc = "write", ![w].fd = i]
    BY <1>10 DEF Create
  <2>2. [job[w] EXCEPT !.pc = "write", !.fd = i] \in Job
    BY DEF Types, Job
  <2>3. job' = [job EXCEPT ![w] = [job[w] EXCEPT !.pc = "write", !.fd = i]]
    BY <2>1 DEF Types
  <2>4. job' \in [Workers -> Job]
    BY <2>2, <2>3 DEF Types
  <2>. QED
    BY <1>10, <2>1, <2>4 DEF Create, Types, ceremony
<1>11. ASSUME NEW w \in Workers, Write(w) PROVE Types'
  <2>1. PICK written \in {job[w].out} \cup (IF data[job[w].fd] = Empty THEN {} ELSE {Torn}) :
          data' = [data EXCEPT ![job[w].fd] = written]
    BY <1>11 DEF Write
  <2>2. written \in Store \cup {Empty, Torn}
    BY <2>1 DEF Types, Job
  <2>3. data' \in [Inodes -> Store \cup {Empty, Torn}]
    BY <2>1, <2>2 DEF Types
  <2>4. [job[w] EXCEPT !.pc = "rename", !.out = NoCreds] \in Job
    BY DEF Types, Job
  <2>5. job' = [job EXCEPT ![w] = [job[w] EXCEPT !.pc = "rename", !.out = NoCreds]]
    BY <1>11 DEF Write, Types
  <2>6. job' \in [Workers -> Job]
    BY <2>4, <2>5 DEF Types
  <2>. QED
    BY <1>11, <2>3, <2>6 DEF Write, Types, ceremony
<1>12. ASSUME NEW w \in Workers, WriteFails(w) \/ Rename(w) PROVE Types'
  <2>1. job' \in [Workers -> Job]
    BY <1>12 DEF WriteFails, Rename, Types
  <2>2. /\ path' \in Inodes \cup {NoFile} /\ tmp' \in Inodes \cup {NoFile}
        /\ data' \in [Inodes -> Store \cup {Empty, Torn}]
    BY <1>12 DEF WriteFails, Rename, Types, files
  <2>3. overlapped' \in BOOLEAN
    BY <1>12 DEF WriteFails, Rename, Types, Job
  <2>4. confirmed' \subseteq CredIDs \X {"revoke", "issue"}
    <3>1. job[w].pc # "idle" => job[w].cred \in CredIDs /\ job[w].does \in {"revoke", "issue"}
      BY DEF Types, Named, Job
    <3>. QED
      BY <1>12, <3>1 DEF WriteFails, Rename, Types, files
  <2>. QED
    BY <1>12, <2>1, <2>2, <2>3, <2>4 DEF WriteFails, Rename, Types, ceremony, files
<1>13. ASSUME NEW f \in Feeds, NEW c \in CredIDs, Authenticate(f, c) PROVE Types'
  <2>1. feeds' \in [Feeds -> Feed]
    BY <1>13 DEF Authenticate, Types, Closed, Feed
  <2>. QED
    BY <1>13, <2>1 DEF Authenticate, Types, ceremony, files
<1>14. ASSUME NEW f \in Feeds, Join(f) PROVE Types'
  <2>1. creds[feeds[f].cred] \in Credential
    BY <1>14 DEF Join, Named, Types, Store
  <2>2. feeds' \in [Feeds -> Feed]
    BY <1>14, <2>1 DEF Join, Types, Feed, Credential
  <2>. QED
    BY <1>14, <2>2 DEF Join, Types, ceremony, files
<1>15. ASSUME NEW f \in Feeds, Leave(f) PROVE Types'
  BY <1>15 DEF Leave, Types, ceremony, files
<1>16. ASSUME Crash PROVE Types'
  <2>1. codes' \in [CodeIDs -> Code \cup {NoCode}] /\ crashes' \in Nat
    BY <1>16 DEF Crash, Types
  <2>. QED
    BY <1>16, <2>1 DEF Crash, Types, files
<1>17. ASSUME Start PROVE Types'
  <2>1. Loaded \in Store
    BY <1>17 DEF Start, Readable, Loaded, Types, NoFile, Inodes
  <2>. QED
    BY <1>17, <2>1 DEF Start, Types, files
<1>18. ASSUME Tick PROVE Types'
  BY <1>18 DEF Tick, Types, ceremony, files
<1>19. CASE UNCHANGED vars
  BY <1>19 DEF vars, ceremony, files, Types
<1>. QED
  BY <1>1, <1>2, <1>3, <1>4, <1>5, <1>6, <1>7, <1>8, <1>9, <1>10, <1>11, <1>12,
     <1>13, <1>14, <1>15, <1>16, <1>17, <1>18, <1>19 DEF Next

LEMMA NamedStep == Types /\ Named /\ [Next]_vars => Named'
<1> SUFFICES ASSUME Types, Named, [Next]_vars PROVE Named'
  OBVIOUS
<1> USE DEF Named
<1>1. ASSUME RequestCode \/ Pending PROVE Named'
  BY <1>1 DEF RequestCode, Pending
<1>2. ASSUME NEW k \in CodeIDs, Approve(k) \/ Deny(k) \/ RedeemFails(k) PROVE Named'
  BY <1>2 DEF Approve, Deny, RedeemFails
<1>3. ASSUME NEW w \in Workers, NEW k \in CodeIDs, Redeem(w, k) PROVE Named'
  <2>1. PICK c \in CredIDs : Issue(w, k, c)
    BY <1>3 DEF Redeem
  <2>2. [role |-> codes[k].role, revoked |-> FALSE] # NoCred
    <3>1. [role |-> codes[k].role, revoked |-> FALSE] \in Credential
      BY <1>3, UnexpiredType DEF Redeem, Types, Code, Credential
    <3>. QED
      BY <3>1, PairingAssumption DEF PairingAssumption
  <2>3. /\ feeds' = feeds /\ up' = up /\ Closed' = Closed
        /\ \A d \in CredIDs : creds[d] # NoCred => creds'[d] # NoCred
    BY <2>1, <2>2 DEF Issue, Types, Store, Closed
  <2>4. \A v \in Workers : job'[v].pc # "idle" => job'[v].cred \in CredIDs
    BY <2>1 DEF Issue, Types, Idle
  <2>. QED
    BY <2>3, <2>4
<1>4. ASSUME NEW w \in Workers, NEW c \in CredIDs, Revoke(w, c) PROVE Named'
  <2>1. [creds[c] EXCEPT !.revoked = TRUE] # NoCred
    <3>1. [creds[c] EXCEPT !.revoked = TRUE] \in Credential
      BY <1>4 DEF Revoke, Types, Store, Credential
    <3>. QED
      BY <3>1, PairingAssumption DEF PairingAssumption
  <2>2. creds' = [creds EXCEPT ![c] = [creds[c] EXCEPT !.revoked = TRUE]]
    BY <1>4 DEF Revoke, Types, Store
  <2>3. /\ feeds' = feeds /\ up' = up
        /\ \A d \in CredIDs : creds[d] # NoCred => creds'[d] # NoCred
    BY <1>4, <2>1, <2>2 DEF Revoke, Types, Store
  <2>4. \A v \in Workers : job'[v].pc # "idle" => job'[v].cred \in CredIDs
    BY <1>4 DEF Revoke, Types, Idle
  <2>. QED
    BY <2>3, <2>4
<1>5. ASSUME NEW w \in Workers,
             \/ Export(w) \/ Create(w) \/ Write(w) \/ WriteFails(w) \/ Rename(w)
      PROVE Named'
  <2>1. /\ feeds' = feeds /\ up' = up /\ creds' = creds
    BY <1>5 DEF Export, Create, Write, WriteFails, Rename, ceremony
  <2>2. CASE Export(w)
    <3>1. \A v \in Workers : job'[v].pc # "idle" =>
            /\ job'[v].cred = job[v].cred /\ job[v].pc # "idle"
      BY <2>2 DEF Export, Types, Job
    <3>. QED
      BY <2>1, <3>1
  <2>3. CASE ~Export(w)
    <3>1. \A v \in Workers : job'[v].pc # "idle" =>
            /\ job'[v].cred = job[v].cred /\ job[v].pc # "idle"
      BY <1>5, <2>3 DEF Create, Write, WriteFails, Rename, Types, Job, Idle
    <3>. QED
      BY <2>1, <3>1
  <2>. QED
    BY <2>2, <2>3
<1>6. ASSUME NEW w \in Workers, DropToken(w) PROVE Named'
  <2>1. \A v \in Workers : job'[v].pc # "idle" =>
          /\ job'[v].cred = job[v].cred /\ job[v].pc # "idle"
    BY <1>6 DEF DropToken, Types, Job
  <2>2. \A f \in Feeds : feeds'[f] = feeds[f] \/ feeds'[f] = Closed
    BY <1>6 DEF DropToken
  <2>. QED
    BY <1>6, <2>1, <2>2 DEF DropToken, ceremony, Closed
<1>7. ASSUME NEW f \in Feeds, NEW c \in CredIDs, Authenticate(f, c) PROVE Named'
  BY <1>7 DEF Authenticate, ceremony, Types, Closed
<1>8. ASSUME NEW f \in Feeds, Join(f) \/ Leave(f) PROVE Named'
  BY <1>8 DEF Join, Leave, ceremony, Types, Closed, Feed
<1>9. ASSUME Crash \/ Start \/ Tick PROVE Named'
  <2>1. CASE Crash
    BY <2>1 DEF Crash, Closed, Idle
  <2>2. CASE Start
    BY <2>2 DEF Start, Closed, Types
  <2>3. CASE Tick
    BY <2>3 DEF Tick, ceremony
  <2>. QED
    BY <1>9, <2>1, <2>2, <2>3
<1>10. CASE UNCHANGED vars
  BY <1>10 DEF vars, ceremony
<1>. QED
  BY <1>1, <1>2, <1>3, <1>4, <1>5, <1>6, <1>7, <1>8, <1>9, <1>10 DEF Next

LEMMA TypesHold == Spec => [](Types /\ Named)
  BY TypesInit, TypesStep, NamedStep, PTL DEF Spec

-----------------------------------------------------------------------------
(* Revocation *)

LEMMA DroppedStep ==
  Types /\ Named /\ RevokedIsDropped /\ [Next]_vars => RevokedIsDropped'
<1> SUFFICES ASSUME Types, Named, RevokedIsDropped, [Next]_vars,
                    NEW f \in Feeds, feeds'[f].stage = "live", ~feeds'[f].late
             PROVE  \/ ~creds'[feeds'[f].cred].revoked
                    \/ \E w \in Workers : job'[w].pc = "drop" /\ job'[w].cred = feeds'[f].cred
  BY DEF RevokedIsDropped
<1> DEFINE Goal == \/ ~creds'[feeds'[f].cred].revoked
                   \/ \E w \in Workers : job'[w].pc = "drop" /\ job'[w].cred = feeds'[f].cred
\* What is left of the invariant for f when neither f nor its credential changed.
<1>1. ASSUME feeds'[f] = feeds[f],
             \/ creds'[feeds[f].cred] = creds[feeds[f].cred]
             \/ ~creds'[feeds[f].cred].revoked,
             \A w \in Workers : job[w].pc = "drop" =>
               job'[w].pc = "drop" /\ job'[w].cred = job[w].cred
      PROVE Goal
  BY <1>1 DEF RevokedIsDropped
<1> HIDE DEF Goal
<1>2. ASSUME RequestCode \/ Pending PROVE Goal
  BY <1>1, <1>2 DEF RequestCode, Pending
<1>3. ASSUME NEW k \in CodeIDs, Approve(k) \/ Deny(k) \/ RedeemFails(k) PROVE Goal
  BY <1>1, <1>3 DEF Approve, Deny, RedeemFails
<1>4. ASSUME NEW w \in Workers, NEW k \in CodeIDs, Redeem(w, k) PROVE Goal
  <2>1. PICK c \in CredIDs : Issue(w, k, c)
    BY <1>4 DEF Redeem
  <2>2. /\ feeds' = feeds /\ job[w].pc = "idle"
        /\ \A d \in CredIDs : creds'[d] = creds[d] \/ ~creds'[d].revoked
    BY <1>4, <2>1 DEF Issue, Redeem, Types, Store
  <2>3. feeds[f].cred \in CredIDs
    BY <2>2 DEF Named
  <2>4. \A v \in Workers : v # w => job'[v] = job[v]
    BY <2>1 DEF Issue, Types
  <2>. QED
    BY <1>1, <2>2, <2>3, <2>4
<1>5. ASSUME NEW w \in Workers, NEW c \in CredIDs, Revoke(w, c) PROVE Goal
  <2>1. /\ feeds' = feeds /\ job[w].pc = "idle"
        /\ job'[w].pc = "drop" /\ job'[w].cred = c
        /\ \A v \in Workers : v # w => job'[v] = job[v]
        /\ \A d \in CredIDs : d # c => creds'[d] = creds[d]
    BY <1>5 DEF Revoke, Types, Store, Idle
  <2>2. CASE feeds[f].cred = c
    BY <2>1, <2>2 DEF Goal
  <2>3. CASE feeds[f].cred # c
    <3>1. feeds[f].cred \in CredIDs
      BY <2>1 DEF Named
    <3>. QED
      BY <1>1, <2>1, <2>3, <3>1
  <2>. QED
    BY <2>2, <2>3
<1>6. ASSUME NEW w \in Workers, DropToken(w) PROVE Goal
  <2>1. feeds[f].stage = "live" /\ feeds[f].cred # job[w].cred /\ feeds'[f] = feeds[f]
    BY <1>6 DEF DropToken, Closed
  <2>2. \A v \in Workers : v # w => job'[v] = job[v]
    BY <1>6 DEF DropToken, Types
  <2>3. creds' = creds
    BY <1>6 DEF DropToken, ceremony
  <2>. QED
    BY <2>1, <2>2, <2>3 DEF Goal, RevokedIsDropped
<1>7. ASSUME NEW w \in Workers,
             \/ Export(w) \/ Create(w) \/ Write(w) \/ WriteFails(w) \/ Rename(w)
      PROVE Goal
  <2>1. /\ feeds' = feeds /\ creds' = creds
    BY <1>7 DEF Export, Create, Write, WriteFails, Rename, ceremony
  <2>2. job[w].pc # "drop"
    BY <1>7 DEF Export, Create, Write, WriteFails, Rename
  <2>3. CASE Export(w)
    <3>1. \A v \in Workers : v # w =>
            job'[v].pc = job[v].pc /\ job'[v].cred = job[v].cred
      BY <2>3 DEF Export, Types, Job
    <3>. QED
      BY <1>1, <2>1, <2>2, <3>1
  <2>4. CASE ~Export(w)
    <3>1. \A v \in Workers : v # w => job'[v] = job[v]
      BY <1>7, <2>4 DEF Create, Write, WriteFails, Rename, Types
    <3>. QED
      BY <1>1, <2>1, <2>2, <3>1
  <2>. QED
    BY <2>3, <2>4
<1>8. ASSUME NEW g \in Feeds, NEW c \in CredIDs, Authenticate(g, c) PROVE Goal
  <2>1. g # f
    BY <1>8 DEF Authenticate, Types, Closed
  <2>. QED
    BY <1>1, <1>8, <2>1 DEF Authenticate, Types, ceremony
<1>9. ASSUME NEW g \in Feeds, Join(g) PROVE Goal
  <2>1. CASE g = f
    BY <1>9, <2>1 DEF Join, Types, Feed, ceremony, Goal
  <2>2. CASE g # f
    BY <1>1, <1>9, <2>2 DEF Join, Types, ceremony
  <2>. QED
    BY <2>1, <2>2
<1>10. ASSUME NEW g \in Feeds, Leave(g) PROVE Goal
  <2>1. g # f
    BY <1>10 DEF Leave, Types, Closed
  <2>. QED
    BY <1>1, <1>10, <2>1 DEF Leave, Types, ceremony
<1>11. ASSUME Crash PROVE Goal
  <2>1. feeds'[f] = Closed
    BY <1>11 DEF Crash
  <2>. QED
    BY <2>1 DEF Closed
<1>12. ASSUME Start PROVE Goal
  <2>1. feeds'[f] = Closed
    BY <1>12 DEF Start, Named
  <2>. QED
    BY <2>1 DEF Closed
<1>13. ASSUME Tick PROVE Goal
  BY <1>1, <1>13 DEF Tick, ceremony
<1>14. ASSUME UNCHANGED vars PROVE Goal
  BY <1>1, <1>14 DEF vars, ceremony
<1>15. Goal
  BY <1>2, <1>3, <1>4, <1>5, <1>6, <1>7, <1>8, <1>9, <1>10, <1>11, <1>12, <1>13,
     <1>14 DEF Next
<1>. QED
  BY <1>15 DEF Goal

\* However many connections, administrators and redemptions race: a feed whose
\* credential is revoked is dropped, unless it was past its authentication and
\* not yet with the hub when the credential was revoked (RevokePairing).
THEOREM RevokedDropped == Spec => []RevokedIsDropped
<1>1. Init => RevokedIsDropped
  BY DEF Init, RevokedIsDropped, Closed
<1>. QED
  BY <1>1, DroppedStep, TypesHold, PTL DEF Spec

-----------------------------------------------------------------------------
(* Device codes *)

\* The life of every code and its credentials, as Promise sees them.
Life ==
  [k \in CodeIDs |->
    IF k > asked THEN "unborn"
    ELSE IF Unexpired[k] = NoCode THEN "closed"
    ELSE IF Unexpired[k].approved THEN "approved" ELSE "waiting"]

Grants == [k \in CodeIDs |-> {c \in CredIDs : source[c] = k}]

\* Codes are handed out in order, and a code that was exchanged is gone.
InOrder ==
  /\ \A k \in CodeIDs : k > asked => codes[k] = NoCode
  /\ \A c \in CredIDs : source[c] # NoID =>
       source[c] <= asked /\ codes[source[c]] = NoCode

\* The steps that concern codes, and all the others.
LEMMA CodeSteps ==
  ASSUME [Next]_vars
  PROVE  \/ RequestCode \/ Pending
         \/ \E k \in CodeIDs : Approve(k) \/ Deny(k) \/ RedeemFails(k)
         \/ \E w \in Workers, k \in CodeIDs : Redeem(w, k)
         \/ Crash \/ Tick
         \/ UNCHANGED <<codes, asked, source, now>>
<1>1. CASE Next
  <2>1. ASSUME NEW w \in Workers,
               \/ \E c \in CredIDs : Revoke(w, c)
               \/ DropToken(w) \/ Export(w) \/ Create(w)
               \/ Write(w) \/ WriteFails(w) \/ Rename(w)
        PROVE  UNCHANGED <<codes, asked, source, now>>
    BY <2>1 DEF Revoke, DropToken, Export, Create, Write, WriteFails, Rename, ceremony
  <2>2. ASSUME NEW f \in Feeds, (\E c \in CredIDs : Authenticate(f, c)) \/ Join(f) \/ Leave(f)
        PROVE  UNCHANGED <<codes, asked, source, now>>
    BY <2>2 DEF Authenticate, Join, Leave, ceremony
  <2>3. ASSUME Start PROVE UNCHANGED <<codes, asked, source, now>>
    BY <2>3 DEF Start
  <2>. QED
    BY <1>1, <2>1, <2>2, <2>3 DEF Next
<1>2. CASE UNCHANGED vars
  BY <1>2 DEF vars, ceremony
<1>. QED
  BY <1>1, <1>2

LEMMA InOrderStep == Types /\ InOrder /\ [Next]_vars => InOrder'
<1> SUFFICES ASSUME Types, InOrder, [Next]_vars PROVE InOrder'
  OBVIOUS
<1> USE DEF InOrder
<1>0. /\ \A k \in CodeIDs : codes[k] = NoCode => Unexpired[k] = NoCode
      /\ asked \in Nat
      /\ \A c \in CredIDs : source[c] # NoID => source[c] \in CodeIDs
  BY DEF Unexpired, Types
<1>1. ASSUME RequestCode PROVE InOrder'
  <2>1. /\ asked' = asked + 1 /\ source' = source
        /\ \A k \in CodeIDs : k # asked + 1 => codes'[k] = Unexpired[k]
    BY <1>1, UnexpiredType DEF RequestCode
  <2>. QED
    BY <1>0, <2>1 DEF CodeIDs
<1>2. ASSUME Pending \/ \E k \in CodeIDs : Deny(k) \/ RedeemFails(k) PROVE InOrder'
  <2>1. /\ asked' = asked /\ source' = source
        /\ \A j \in CodeIDs : codes[j] = NoCode => codes'[j] = NoCode
    BY <1>0, <1>2, UnexpiredType DEF Pending, Deny, RedeemFails, Types
  <2>. QED
    BY <1>0, <2>1
<1>3. ASSUME NEW k \in CodeIDs, Approve(k) PROVE InOrder'
  <2>1. /\ asked' = asked /\ source' = source
        /\ \A j \in CodeIDs : codes[j] = NoCode => codes'[j] = NoCode
    BY <1>0, <1>3, UnexpiredType DEF Approve
  <2>. QED
    BY <1>0, <2>1
<1>4. ASSUME NEW w \in Workers, NEW k \in CodeIDs, Redeem(w, k) PROVE InOrder'
  <2>1. PICK c \in CredIDs : Issue(w, k, c)
    BY <1>4 DEF Redeem
  <2>2. /\ asked' = asked /\ codes'[k] = NoCode
        /\ \A j \in CodeIDs : codes[j] = NoCode => codes'[j] = NoCode
        /\ \A d \in CredIDs : source'[d] = IF d = c THEN k ELSE source[d]
    BY <1>0, <1>4, <2>1, UnexpiredType DEF Redeem, Issue, Types
  <2>3. k <= asked
    BY <1>0, <1>4 DEF Redeem, CodeIDs
  <2>. QED
    BY <1>0, <2>2, <2>3
<1>5. ASSUME UNCHANGED <<codes, asked, source>> PROVE InOrder'
  BY <1>5
<1>6. ASSUME Crash PROVE InOrder'
  <2>1. /\ asked' = asked /\ source' = source
        /\ codes' = [k \in CodeIDs |-> NoCode]
    BY <1>6 DEF Crash
  <2>. QED
    BY <1>0, <2>1
<1>7. Tick => UNCHANGED <<codes, asked, source>>
  BY DEF Tick, ceremony
<1>. QED
  BY <1>1, <1>2, <1>3, <1>4, <1>5, <1>6, <1>7, CodeSteps

\* What one action does to Life and Grants.
LEMMA LifeStays ==
  ASSUME UNCHANGED <<codes, asked, source, now>>
  PROVE  Life' = Life /\ Grants' = Grants
  BY DEF Life, Grants, Unexpired

LEMMA UnexpiredTwice ==
  ASSUME Types, now' = now, NEW k \in CodeIDs, codes'[k] = Unexpired[k]
  PROVE  Unexpired'[k] = Unexpired[k]
  BY DEF Types, Unexpired

LEMMA PromiseStep ==
  Types /\ InOrder /\ Types' /\ [Next]_vars => [Promise!Next]_(Promise!vars)
<1> SUFFICES ASSUME Types, InOrder, Types', [Next]_vars
             PROVE  Promise!Next \/ UNCHANGED <<Life, Grants>>
  BY DEF Promise!vars, Life, Grants
<1>0. /\ \A k \in CodeIDs : k > asked => Unexpired[k] = NoCode
      /\ asked \in Nat /\ now \in Nat /\ CodeIDs \subseteq Nat
  BY DEF InOrder, Unexpired, Types, CodeIDs
\* The abstract steps in terms of Life and Grants.
<1>1. ASSUME NEW k \in CodeIDs, Life[k] = "unborn", Grants' = Grants,
             Life' = [Life EXCEPT ![k] = "waiting"]
      PROVE  Promise!Next
  <2>1. Promise!Ask(k)
    BY <1>1 DEF Promise!Ask, Life, Grants
  <2>. QED
    BY <2>1 DEF Promise!Next
<1>2. ASSUME NEW k \in CodeIDs, Life[k] = "waiting", Grants' = Grants,
             Life' = [Life EXCEPT ![k] = "approved"]
      PROVE  Promise!Next
  <2>1. Promise!Approve(k)
    BY <1>2 DEF Promise!Approve, Life, Grants
  <2>. QED
    BY <2>1 DEF Promise!Next
<1>3. ASSUME NEW K \in SUBSET CodeIDs, Grants' = Grants,
             \A k \in K : Life[k] \in {"waiting", "approved"},
             Life' = [k \in CodeIDs |-> IF k \in K THEN "closed" ELSE Life[k]]
      PROVE  Promise!Next
  <2>1. Promise!Close(K)
    BY <1>3 DEF Promise!Close, Life, Grants
  <2>. QED
    BY <2>1 DEF Promise!Next
<1>4. ASSUME NEW k \in CodeIDs, NEW c \in CredIDs, Life[k] = "approved",
             \A other \in CodeIDs : c \notin Grants[other],
             Life' = [Life EXCEPT ![k] = "closed"], Grants' = [Grants EXCEPT ![k] = {c}]
      PROVE  Promise!Next
  <2>1. Promise!Grant(k, c)
    BY <1>4 DEF Promise!Grant, Life, Grants
  <2>. QED
    BY <2>1 DEF Promise!Next
<1> DEFINE Goal == Promise!Next \/ UNCHANGED <<Life, Grants>>
<1>5. ASSUME RequestCode PROVE Goal
  <2> DEFINE n == asked + 1
  <2>1. /\ n \in CodeIDs /\ asked' = n /\ now' = now
        /\ codes'[n].expiresAt = now + CodeTTL /\ codes'[n].approved = FALSE
        /\ codes'[n] \in Code
        /\ \A k \in CodeIDs : k # n => codes'[k] = Unexpired[k]
    <3>1. n \in CodeIDs /\ RoleAsked[n] \in Roles
      BY <1>5, <1>0, PairingAssumption DEF RequestCode, CodeIDs, PairingAssumption
    <3>2. [role |-> RoleAsked[n], expiresAt |-> now + CodeTTL, approved |-> FALSE] \in Code
      BY <1>0, <3>1, PairingAssumption DEF Code, PairingAssumption
    <3>. QED
      BY <1>5, <3>1, <3>2, UnexpiredType DEF RequestCode
  <2>2. Unexpired'[n] = codes'[n] /\ codes'[n] # NoCode
    BY <1>0, <2>1, PairingAssumption DEF Unexpired, PairingAssumption
  <2>3. \A k \in CodeIDs : k # n => Unexpired'[k] = Unexpired[k]
    BY <2>1, UnexpiredTwice
  <2>4. Life[n] = "unborn" /\ Life' = [Life EXCEPT ![n] = "waiting"]
    <3>1. Life[n] = "unborn" /\ Life'[n] = "waiting"
      BY <1>0, <2>1, <2>2 DEF Life
    <3>2. \A k \in CodeIDs : k # n => Life'[k] = Life[k]
      <4> SUFFICES ASSUME NEW k \in CodeIDs, k # n PROVE Life'[k] = Life[k]
        OBVIOUS
      <4>1. k > n <=> k > asked
        BY <1>0
      <4>. QED
        BY <2>1, <2>3, <4>1 DEF Life
    <3>. QED
      BY <2>1, <3>1, <3>2 DEF Life
  <2>5. Grants' = Grants
    BY <1>5 DEF RequestCode, Grants
  <2>. QED
    BY <1>1, <2>1, <2>4, <2>5
<1>6. ASSUME Pending PROVE Goal
  <2>1. codes' = Unexpired /\ UNCHANGED <<now, asked, source>>
    BY <1>6 DEF Pending
  <2>2. \A k \in CodeIDs : Unexpired'[k] = Unexpired[k]
    BY <2>1, UnexpiredTwice
  <2>. QED
    BY <2>1, <2>2 DEF Life, Grants
<1>7. ASSUME NEW k \in CodeIDs, Approve(k) PROVE Goal
  <2>1. /\ UNCHANGED <<now, asked, source>> /\ Unexpired[k] # NoCode
        /\ codes'[k] = [Unexpired[k] EXCEPT !.approved = TRUE]
        /\ \A j \in CodeIDs : j # k => codes'[j] = Unexpired[j]
    BY <1>7, UnexpiredType DEF Approve
  <2>2. Unexpired[k] = codes[k] /\ codes[k] \in Code /\ ~(now > codes[k].expiresAt)
    BY <2>1, UnexpiredType DEF Types, Unexpired
  <2>3. codes'[k] \in Code /\ codes'[k].expiresAt = codes[k].expiresAt /\ codes'[k].approved
    BY <2>1, <2>2 DEF Code
  <2>4. Unexpired'[k] = codes'[k] /\ codes'[k] # NoCode
    BY <2>1, <2>2, <2>3, PairingAssumption DEF Unexpired, PairingAssumption
  <2>5. \A j \in CodeIDs : j # k => Unexpired'[j] = Unexpired[j]
    BY <2>1, UnexpiredTwice
  <2>6. k <= asked /\ Grants' = Grants
    BY <1>0, <2>1 DEF Grants
  <2>7. Life[k] \in {"waiting", "approved"} /\ Life' = [Life EXCEPT ![k] = "approved"]
    <3>1. Life[k] \in {"waiting", "approved"} /\ Life'[k] = "approved"
      BY <1>0, <2>1, <2>3, <2>4, <2>6 DEF Life
    <3>2. \A j \in CodeIDs : j # k => Life'[j] = Life[j]
      BY <2>1, <2>5 DEF Life
    <3>. QED
      BY <3>1, <3>2 DEF Life
  <2>. QED
    BY <1>2, <2>6, <2>7 DEF Life
<1>8. ASSUME NEW k \in CodeIDs, UNCHANGED <<now, asked, source>>,
             codes'[k] = NoCode,
             \A j \in CodeIDs : j # k => Unexpired'[j] = Unexpired[j]
      PROVE  Goal
  <2>1. Unexpired'[k] = NoCode
    BY <1>8 DEF Unexpired
  <2>2. Grants' = Grants
    BY <1>8 DEF Grants
  <2>3. CASE Unexpired[k] = NoCode
    <3>1. Life' = Life
      BY <1>8, <2>1, <2>3 DEF Life
    <3>. QED
      BY <2>2, <3>1
  <2>4. CASE Unexpired[k] # NoCode
    <3>1. Life[k] \in {"waiting", "approved"}
      BY <1>0, <2>4 DEF Life
    <3>2. Life' = [j \in CodeIDs |-> IF j \in {k} THEN "closed" ELSE Life[j]]
      BY <1>0, <1>8, <2>1, <2>4 DEF Life
    <3>. QED
      BY <1>3, <2>2, <3>1, <3>2
  <2>. QED
    BY <2>3, <2>4
<1>9. ASSUME NEW k \in CodeIDs, Deny(k) PROVE Goal
  BY <1>8, <1>9 DEF Deny, Types, Unexpired
<1>10. ASSUME NEW k \in CodeIDs, RedeemFails(k) PROVE Goal
  <2>1. /\ UNCHANGED <<now, asked, source>> /\ codes'[k] = NoCode
        /\ \A j \in CodeIDs : j # k => codes'[j] = Unexpired[j]
    BY <1>10, UnexpiredType DEF RedeemFails
  <2>. QED
    BY <1>8, <2>1, UnexpiredTwice
<1>11. ASSUME NEW w \in Workers, NEW k \in CodeIDs, Redeem(w, k) PROVE Goal
  <2>1. PICK c \in CredIDs : Issue(w, k, c)
    BY <1>11 DEF Redeem
  <2>2. /\ UNCHANGED <<now, asked>> /\ source[c] = NoID
        /\ source' = [source EXCEPT ![c] = k]
        /\ Unexpired[k] # NoCode /\ codes[k].approved /\ codes'[k] = NoCode
        /\ \A j \in CodeIDs : j # k => codes'[j] = Unexpired[j]
    BY <1>11, <2>1, UnexpiredType DEF Redeem, Issue, Issued
  <2>3. Unexpired'[k] = NoCode /\ \A j \in CodeIDs : j # k => Unexpired'[j] = Unexpired[j]
    BY <2>2, UnexpiredTwice DEF Unexpired
  <2>4. Unexpired[k].approved /\ k <= asked
    BY <1>0, <2>2, UnexpiredType
  <2>5. Life[k] = "approved" /\ Life' = [Life EXCEPT ![k] = "closed"]
    <3>1. Life[k] = "approved" /\ Life'[k] = "closed"
      BY <1>0, <2>2, <2>3, <2>4 DEF Life
    <3>2. \A j \in CodeIDs : j # k => Life'[j] = Life[j]
      BY <2>2, <2>3 DEF Life
    <3>. QED
      BY <3>1, <3>2 DEF Life
  <2>6. \A d \in CredIDs : source[d] # k
    BY <2>2, UnexpiredType DEF InOrder, Types, NoID, CodeIDs
  <2>7. \A other \in CodeIDs : c \notin Grants[other]
    BY <2>2 DEF Grants, NoID, CodeIDs
  <2>8. Grants' = [Grants EXCEPT ![k] = {c}]
    <3>1. \A d \in CredIDs : source'[d] = IF d = c THEN k ELSE source[d]
      BY <2>2 DEF Types
    <3>2. Grants'[k] = {c}
      BY <2>6, <3>1 DEF Grants
    <3>3. \A j \in CodeIDs : j # k => Grants'[j] = Grants[j]
      BY <2>2, <3>1 DEF Grants, NoID, CodeIDs
    <3>. QED
      BY <3>2, <3>3 DEF Grants
  <2>. QED
    BY <1>4, <2>5, <2>7, <2>8
<1>12. ASSUME Crash PROVE Goal
  <2> DEFINE K == {k \in CodeIDs : Life[k] \in {"waiting", "approved"}}
  <2>1. UNCHANGED <<now, asked, source>> /\ \A k \in CodeIDs : Unexpired'[k] = NoCode
    BY <1>12 DEF Crash, Unexpired
  <2>2. Life' = [k \in CodeIDs |-> IF k \in K THEN "closed" ELSE Life[k]]
    BY <1>0, <2>1 DEF Life
  <2>3. Grants' = Grants
    BY <2>1 DEF Grants
  <2>. QED
    BY <1>3, <2>2, <2>3
<1>13. ASSUME Tick PROVE Goal
  <2> DEFINE K == {k \in CodeIDs : Unexpired[k] # NoCode /\ Unexpired'[k] = NoCode}
  <2>1. UNCHANGED <<codes, asked, source>> /\ now' = now + 1
    BY <1>13 DEF Tick, ceremony
  <2>2. \A k \in CodeIDs : Unexpired'[k] = NoCode \/ Unexpired'[k] = Unexpired[k]
    BY <1>0, <2>1 DEF Unexpired, Types, Code
  <2>3. \A k \in K : Life[k] \in {"waiting", "approved"}
    BY <1>0 DEF Life
  <2>4. Life' = [k \in CodeIDs |-> IF k \in K THEN "closed" ELSE Life[k]]
    BY <1>0, <2>1, <2>2 DEF Life
  <2>5. Grants' = Grants
    BY <2>1 DEF Grants
  <2>. QED
    BY <1>3, <2>3, <2>4, <2>5
<1>14. ASSUME UNCHANGED <<codes, asked, source, now>> PROVE Goal
  BY <1>14, LifeStays
<1>. QED
  BY <1>5, <1>6, <1>7, <1>9, <1>10, <1>11, <1>12, <1>13, <1>14, CodeSteps

\* The ceremony keeps what DeviceCodes promises, although expired codes are
\* removed lazily: a code is exchanged once at most, only after its approval and
\* before it expires, and for a credential no other code was exchanged for.
THEOREM CodesOnce == Spec => CodesAreOneUse
<1>1. Init => InOrder
  BY DEF Init, InOrder
<1>2. Init => Promise!Init
  <2> SUFFICES ASSUME Init PROVE Promise!Init
    OBVIOUS
  <2>1. \A k \in CodeIDs : k > asked
    BY DEF Init, CodeIDs
  <2>2. \A k \in CodeIDs, c \in CredIDs : source[c] # k
    BY DEF Init, CodeIDs, NoID
  <2>. QED
    BY <2>1, <2>2 DEF Promise!Init
<1>. QED
  BY <1>1, <1>2, InOrderStep, PromiseStep, TypesHold, PTL
     DEF Spec, CodesAreOneUse, Promise!Spec

-----------------------------------------------------------------------------
(* The credential file.  Durable is not inductive: that a rename makes it   *)
(* true again needs what the renamed file holds, hence what was exported    *)
(* into it, hence that memory had everything that was confirmed by then.    *)

Deeds == {"revoke", "issue"}

\* S shows what was confirmed of c, and of everything.
Shows(S, c, does) == S[c] # NoCred /\ (does = "revoke" => S[c].revoked)

ShowsAll(S) ==
  \A c \in CredIDs, does \in Deeds : <<c, does>> \in confirmed => Shows(S, c, does)

\* Memory forgets nothing while the process runs; when it does not, nothing does.
Remembers ==
  /\ up => ShowsAll(creds)
  /\ \A w \in Workers : job[w].pc # "idle" =>
       up /\ Shows(creds, job[w].cred, job[w].does)

\* Nobody knows of a credential that was never issued.
OnlyIssued ==
  \A c \in CredIDs : source[c] = NoID =>
    /\ creds[c] = NoCred
    /\ \A w \in Workers : job[w].out[c] = NoCred
    /\ \A i \in Inodes : data[i] \in Store => data[i][c] = NoCred
    /\ \A does \in Deeds : <<c, does>> \notin confirmed

\* The two names are of two files, and a worker has a file open while it writes it
\* and until it has renamed it.
Names ==
  /\ path = tmp => path = NoFile
  /\ \A w \in Workers :
       IF job[w].pc \in {"write", "rename"} THEN job[w].fd \in Inodes
       ELSE job[w].fd = NoFile

\* A save nothing has overlapped has the temporary file for itself, and what it
\* wrote or will write holds all that was confirmed and what it is to confirm.
AloneIsSound ==
  \A w \in Workers : Saving(w) /\ job[w].alone =>
    /\ \A v \in Workers : Saving(v) => v = w
    /\ job[w].pc # "rename" =>
         ShowsAll(job[w].out) /\ Shows(job[w].out, job[w].cred, job[w].does)
    /\ job[w].pc = "write" => tmp = job[w].fd /\ data[tmp] = Empty
    /\ job[w].pc = "rename" =>
         /\ tmp = job[w].fd /\ data[tmp] \in Store
         /\ ShowsAll(data[tmp]) /\ Shows(data[tmp], job[w].cred, job[w].does)

AllAlone == ~overlapped => \A w \in Workers : Saving(w) => job[w].alone

\* Durable, without the pairs.
Saved == ~overlapped => Readable /\ ShowsAll(Loaded)

Kept == Remembers /\ OnlyIssued /\ Names /\ AloneIsSound /\ AllAlone /\ Saved

-----------------------------------------------------------------------------
\* The steps that concern files, credentials or jobs, and all the others.
LEMMA StoreSteps ==
  ASSUME [Next]_vars
  PROVE  \/ \E w \in Workers, k \in CodeIDs : Redeem(w, k)
         \/ \E w \in Workers, c \in CredIDs : Revoke(w, c)
         \/ \E w \in Workers :
              \/ DropToken(w) \/ Export(w) \/ Create(w)
              \/ Write(w) \/ WriteFails(w) \/ Rename(w)
         \/ Crash \/ Start
         \/ UNCHANGED <<creds, source, job, files, up, confirmed, overlapped>>
<1>1. CASE Next
  <2>1. ASSUME NEW k \in CodeIDs, Approve(k) \/ Deny(k) \/ RedeemFails(k)
        PROVE  UNCHANGED <<creds, source, job, files, up, confirmed, overlapped>>
    BY <2>1 DEF Approve, Deny, RedeemFails
  <2>2. ASSUME NEW f \in Feeds, (\E c \in CredIDs : Authenticate(f, c)) \/ Join(f) \/ Leave(f)
        PROVE  UNCHANGED <<creds, source, job, files, up, confirmed, overlapped>>
    BY <2>2 DEF Authenticate, Join, Leave, ceremony
  <2>3. ASSUME RequestCode \/ Pending \/ Tick
        PROVE  UNCHANGED <<creds, source, job, files, up, confirmed, overlapped>>
    BY <2>3 DEF RequestCode, Pending, Tick, ceremony
  <2>. QED
    BY <1>1, <2>1, <2>2, <2>3 DEF Next
<1>2. CASE UNCHANGED vars
  BY <1>2 DEF vars, ceremony
<1>. QED
  BY <1>1, <1>2

\* What the steps on a job leave of it.
LEMMA JobFields ==
  ASSUME Types
  PROVE  \A w \in Workers :
           /\ job[w].pc \in {"idle", "drop", "export", "create", "write", "rename"}
           /\ job[w].does \in Deeds /\ job[w].cred \in CredIDs \cup {NoID}
           /\ job[w].out \in Store /\ job[w].fd \in Inodes \cup {NoFile}
           /\ job[w].alone \in BOOLEAN
  BY DEF Types, Job, Deeds

\* What each action makes of the jobs, worker by worker.
LEMMA IssueEffect ==
  ASSUME Types, NEW w \in Workers, NEW k \in CodeIDs, NEW c \in CredIDs, Issue(w, k, c)
  PROVE  /\ source[c] = NoID /\ source'[c] = k /\ \A d \in CredIDs : d # c => source'[d] = source[d]
         /\ creds'[c] = [role |-> codes[k].role, revoked |-> FALSE]
         /\ \A d \in CredIDs : d # c => creds'[d] = creds[d]
         /\ job'[w].pc = "export" /\ job'[w].does = "issue" /\ job'[w].cred = c
         /\ job'[w].out = NoCreds /\ job'[w].fd = NoFile
         /\ \A v \in Workers : v # w => job'[v] = job[v]
         /\ UNCHANGED <<files, up, confirmed, overlapped>>
  BY DEF Issue, Issued, Types, Store, Idle

LEMMA RevokeEffect ==
  ASSUME Types, NEW w \in Workers, NEW c \in CredIDs, Revoke(w, c)
  PROVE  /\ up /\ job[w].pc = "idle" /\ creds[c] # NoCred
         /\ creds'[c] # NoCred /\ creds'[c].revoked
         /\ \A d \in CredIDs : d # c => creds'[d] = creds[d]
         /\ job'[w].pc = "drop" /\ job'[w].does = "revoke" /\ job'[w].cred = c
         /\ job'[w].out = NoCreds /\ job'[w].fd = NoFile
         /\ \A v \in Workers : v # w => job'[v] = job[v]
         /\ UNCHANGED <<source, files, up, confirmed, overlapped>>
<1>1. creds[c] \in Credential
  BY DEF Revoke, Types, Store
<1>2. creds' = [creds EXCEPT ![c] = [creds[c] EXCEPT !.revoked = TRUE]]
  BY DEF Revoke, Types, Store
<1>3. creds'[c] = [creds[c] EXCEPT !.revoked = TRUE] /\ \A d \in CredIDs : d # c => creds'[d] = creds[d]
  BY <1>2 DEF Types, Store
<1>4. creds'[c] \in Credential /\ creds'[c].revoked
  BY <1>1, <1>3 DEF Credential
<1>5. creds'[c] # NoCred
  BY <1>4, PairingAssumption DEF PairingAssumption
<1>. QED
  BY <1>3, <1>4, <1>5 DEF Revoke, Types, Idle

LEMMA DropEffect ==
  ASSUME Types, NEW w \in Workers, DropToken(w)
  PROVE  /\ job[w].pc = "drop" /\ job'[w].pc = "export" /\ job'[w].does = job[w].does
         /\ job'[w].cred = job[w].cred /\ job'[w].out = job[w].out /\ job'[w].fd = job[w].fd
         /\ job'[w].alone = job[w].alone
         /\ \A v \in Workers : v # w => job'[v] = job[v]
         /\ UNCHANGED <<creds, source, files, up, confirmed, overlapped>>
  BY DEF DropToken, Types, Job, ceremony

LEMMA ExportEffect ==
  ASSUME Types, NEW w \in Workers, Export(w)
  PROVE  /\ up /\ job[w].pc = "export" /\ job'[w].pc = "create"
         /\ job'[w].does = job[w].does /\ job'[w].cred = job[w].cred
         /\ job'[w].out = creds /\ job'[w].fd = job[w].fd
         /\ job'[w].alone => \A v \in Workers : ~Saving(v)
         /\ (\A v \in Workers : ~Saving(v)) => job'[w].alone
         /\ \A v \in Workers : v # w =>
              /\ job'[v].pc = job[v].pc /\ job'[v].does = job[v].does
              /\ job'[v].cred = job[v].cred /\ job'[v].out = job[v].out
              /\ job'[v].fd = job[v].fd
              /\ Saving(v) => ~job'[v].alone
         /\ (overlapped \/ \E v \in Workers : Saving(v)) => overlapped'
         /\ UNCHANGED <<creds, source, files, up, confirmed>>
<1> DEFINE Others == {v \in Workers \ {w} : Saving(v)}
<1>1. /\ up /\ job[w].pc = "export" /\ overlapped' = (overlapped \/ Others # {})
      /\ job' = [v \in Workers |->
          CASE v = w -> [job[w] EXCEPT !.pc = "create", !.out = creds,
                                       !.alone = (Others = {})]
            [] v \in Others -> [job[v] EXCEPT !.alone = FALSE]
            [] OTHER -> job[v]]
      /\ UNCHANGED <<creds, source, files, up, confirmed>>
  BY DEF Export, ceremony
<1>2. ~Saving(w)
  BY <1>1 DEF Saving
<1>3. Others = {} <=> \A v \in Workers : ~Saving(v)
  BY <1>2
<1>4. /\ job'[w] = [job[w] EXCEPT !.pc = "create", !.out = creds, !.alone = (Others = {})]
      /\ job[w] \in Job
  BY <1>1 DEF Types
<1>5. \A v \in Workers : v # w =>
        /\ job[v] \in Job
        /\ job'[v] = IF Saving(v) THEN [job[v] EXCEPT !.alone = FALSE] ELSE job[v]
  BY <1>1 DEF Types
<1>6. job'[w].pc = "create" /\ job'[w].does = job[w].does /\ job'[w].cred = job[w].cred
      /\ job'[w].out = creds /\ job'[w].fd = job[w].fd /\ job'[w].alone = (Others = {})
  <2> HIDE DEF Others
  <2>. QED
    BY <1>4 DEF Job
<1>7. \A v \in Workers : v # w =>
        /\ job'[v].pc = job[v].pc /\ job'[v].does = job[v].does
        /\ job'[v].cred = job[v].cred /\ job'[v].out = job[v].out
        /\ job'[v].fd = job[v].fd
        /\ Saving(v) => ~job'[v].alone
  BY <1>5 DEF Job
<1>. QED
  BY <1>1, <1>3, <1>6, <1>7

LEMMA CreateEffect ==
  ASSUME Types, NEW w \in Workers, Create(w)
  PROVE  /\ up /\ job[w].pc = "create" /\ job'[w].pc = "write"
         /\ job'[w].does = job[w].does /\ job'[w].cred = job[w].cred
         /\ job'[w].out = job[w].out /\ job'[w].alone = job[w].alone
         /\ tmp' \in Inodes /\ job'[w].fd = tmp' /\ data'[tmp'] = Empty
         /\ tmp # NoFile => tmp' = tmp
         /\ tmp = NoFile => tmp' # path
         /\ \A i \in Inodes : i # tmp' => data'[i] = data[i]
         /\ \A v \in Workers : v # w => job'[v] = job[v]
         /\ UNCHANGED <<creds, source, path, up, confirmed, overlapped>>
<1>1. PICK i \in Inodes :
        /\ IF tmp # NoFile THEN i = tmp ELSE i # path
        /\ tmp' = i /\ data' = [data EXCEPT ![i] = Empty]
        /\ job' = [job EXCEPT ![w].pc = "write", ![w].fd = i]
  BY DEF Create
<1>2. job' = [job EXCEPT ![w] = [job[w] EXCEPT !.pc = "write", !.fd = i]]
  BY <1>1 DEF Types
<1>3. job[w] \in Job /\ job'[w] = [job[w] EXCEPT !.pc = "write", !.fd = i] /\ \A v \in Workers : v # w => job'[v] = job[v]
  BY <1>2 DEF Types
<1>4. /\ job'[w].pc = "write" /\ job'[w].fd = i
      /\ job'[w].does = job[w].does /\ job'[w].cred = job[w].cred
      /\ job'[w].out = job[w].out /\ job'[w].alone = job[w].alone
  BY <1>3 DEF Job
<1>5. data'[i] = Empty /\ \A j \in Inodes : j # i => data'[j] = data[j]
  BY <1>1 DEF Types
<1>. QED
  BY <1>1, <1>3, <1>4, <1>5 DEF Create, ceremony

LEMMA WriteEffect ==
  ASSUME Types, Names, NEW w \in Workers, Write(w)
  PROVE  /\ up /\ job[w].pc = "write" /\ job'[w].pc = "rename"
         /\ job'[w].does = job[w].does /\ job'[w].cred = job[w].cred
         /\ job'[w].out = NoCreds /\ job'[w].alone = job[w].alone
         /\ job'[w].fd = job[w].fd /\ job[w].fd \in Inodes
         /\ \/ data'[job[w].fd] = job[w].out
            \/ data[job[w].fd] # Empty /\ data'[job[w].fd] = Torn
         /\ \A i \in Inodes : i # job[w].fd => data'[i] = data[i]
         /\ \A v \in Workers : v # w => job'[v] = job[v]
         /\ UNCHANGED <<creds, source, path, tmp, up, confirmed, overlapped>>
<1>1. PICK written \in {job[w].out} \cup (IF data[job[w].fd] = Empty THEN {} ELSE {Torn}) :
        data' = [data EXCEPT ![job[w].fd] = written]
  BY DEF Write
<1>2. job[w].fd \in Inodes
  BY DEF Names, Write
<1>3. job' = [job EXCEPT ![w] = [job[w] EXCEPT !.pc = "rename", !.out = NoCreds]]
  BY DEF Types, Write
<1>4. job[w] \in Job /\ job'[w] = [job[w] EXCEPT !.pc = "rename", !.out = NoCreds] /\ \A v \in Workers : v # w => job'[v] = job[v]
  BY <1>3 DEF Types
<1>5. /\ job'[w].pc = "rename" /\ job'[w].fd = job[w].fd
      /\ job'[w].does = job[w].does /\ job'[w].cred = job[w].cred
      /\ job'[w].out = NoCreds /\ job'[w].alone = job[w].alone
  BY <1>4 DEF Job
<1>6. data'[job[w].fd] = written /\ \A j \in Inodes : j # job[w].fd => data'[j] = data[j]
  BY <1>1, <1>2 DEF Types
<1>7. written = job[w].out \/ (data[job[w].fd] # Empty /\ written = Torn)
  BY <1>1
<1>8. up /\ job[w].pc = "write" /\ UNCHANGED <<creds, source, path, tmp, up, confirmed, overlapped>>
  BY DEF Write, ceremony
<1>. QED
  BY <1>2, <1>4, <1>5, <1>6, <1>7, <1>8

LEMMA FailEffect ==
  ASSUME Types, NEW w \in Workers, WriteFails(w)
  PROVE  /\ job[w].pc = "write" /\ job'[w] = Idle
         /\ \A v \in Workers : v # w => job'[v] = job[v]
         /\ UNCHANGED <<creds, source, files, up, confirmed, overlapped>>
  BY DEF Types, WriteFails, ceremony

LEMMA RenameEffect ==
  ASSUME Types, NEW w \in Workers, Rename(w)
  PROVE  /\ up /\ job[w].pc = "rename" /\ job'[w] = Idle
         /\ \A v \in Workers : v # w => job'[v] = job[v]
         /\ UNCHANGED <<creds, source, up>>
         /\ tmp = NoFile => UNCHANGED <<files, confirmed, overlapped>>
         /\ tmp # NoFile =>
              /\ path' = tmp /\ tmp' = NoFile
              /\ \A i \in Inodes : data'[i] = data[i] \/ (i = path /\ data'[i] = Empty)
              /\ confirmed' = confirmed \cup {<<job[w].cred, job[w].does>>}
              /\ overlapped' = (overlapped /\ ~job[w].alone)
<1>1. CASE tmp = NoFile
  BY <1>1 DEF Types, Rename, ceremony
<1>2. CASE tmp # NoFile
  <2> DEFINE Closes(i) == \A v \in Workers : job[v].fd # i
  <2>1. data' = [i \in Inodes |-> IF i = path /\ Closes(i) THEN Empty ELSE data[i]]
    BY <1>2 DEF Rename
  <2> HIDE DEF Closes
  <2>2. \A i \in Inodes : data'[i] = data[i] \/ (i = path /\ data'[i] = Empty)
    BY <2>1
  <2>3. job'[w] = Idle /\ \A v \in Workers : v # w => job'[v] = job[v]
    BY DEF Types, Rename
  <2>. QED
    BY <1>2, <2>2, <2>3 DEF Rename, ceremony
<1>. QED
  BY <1>1, <1>2

-----------------------------------------------------------------------------
LEMMA NamesStep == Types /\ Types' /\ Named /\ Names /\ [Next]_vars => Names'
<1> SUFFICES ASSUME Types, Types', Named, Names, [Next]_vars PROVE Names'
  OBVIOUS
<1>0. ASSUME path' = tmp' => path' = NoFile,
             NEW w \in Workers,
             \A v \in Workers : v # w => job'[v].pc = job[v].pc /\ job'[v].fd = job[v].fd,
             IF job'[w].pc \in {"write", "rename"} THEN job'[w].fd \in Inodes
             ELSE job'[w].fd = NoFile
      PROVE  Names'
  BY <1>0 DEF Names, Inodes
<1>1. ASSUME NEW w \in Workers, NEW k \in CodeIDs, Redeem(w, k) PROVE Names'
  <2>1. PICK c \in CredIDs : Issue(w, k, c)
    BY <1>1 DEF Redeem
  <2>2. job[w].pc = "idle" /\ job'[w].pc = "export" /\ job'[w].fd = NoFile
    BY <1>1, <2>1, IssueEffect DEF Redeem
  <2>3. UNCHANGED <<path, tmp>> /\ \A v \in Workers : v # w => job'[v] = job[v]
    BY <2>1, IssueEffect DEF files
  <2>. QED
    BY <1>0, <2>2, <2>3 DEF Names
<1>2. ASSUME NEW w \in Workers, NEW c \in CredIDs, Revoke(w, c) PROVE Names'
  BY <1>0, <1>2, RevokeEffect DEF Names, files
<1>3. ASSUME NEW w \in Workers, DropToken(w) PROVE Names'
  BY <1>0, <1>3, DropEffect DEF Names, files
<1>4. ASSUME NEW w \in Workers, Export(w) PROVE Names'
  BY <1>0, <1>4, ExportEffect DEF Names, files
<1>5. ASSUME NEW w \in Workers, Create(w) PROVE Names'
  BY <1>0, <1>5, CreateEffect DEF Names
<1>6. ASSUME NEW w \in Workers, Write(w) PROVE Names'
  BY <1>0, <1>6, WriteEffect DEF Names
<1>7. ASSUME NEW w \in Workers, WriteFails(w) PROVE Names'
  BY <1>0, <1>7, FailEffect DEF Names, files, Idle
<1>8. ASSUME NEW w \in Workers, Rename(w) PROVE Names'
  <2>1. path' = tmp' => path' = NoFile
    BY <1>8, RenameEffect DEF Names, files
  <2>. QED
    BY <1>0, <1>8, <2>1, RenameEffect DEF Idle
<1>9. ASSUME Crash PROVE Names'
  BY <1>9 DEF Crash, Names, Idle, files, Inodes
<1>10. ASSUME Start PROVE Names'
  BY <1>10 DEF Start, Names, files, Inodes
<1>11. ASSUME UNCHANGED <<creds, source, job, files, up, confirmed, overlapped>> PROVE Names'
  BY <1>11 DEF Names, files, Inodes
<1>. QED
  BY <1>1, <1>2, <1>3, <1>4, <1>5, <1>6, <1>7, <1>8, <1>9, <1>10, <1>11, StoreSteps

LEMMA OnlyIssuedStep ==
  Types /\ Named /\ Names /\ OnlyIssued /\ Remembers /\ [Next]_vars => OnlyIssued'
<1> SUFFICES ASSUME Types, Named, Names, OnlyIssued, Remembers, [Next]_vars,
                    NEW c \in CredIDs, source'[c] = NoID
             PROVE  /\ creds'[c] = NoCred
                    /\ \A w \in Workers : job'[w].out[c] = NoCred
                    /\ \A i \in Inodes : data'[i] \in Store => data'[i][c] = NoCred
                    /\ \A does \in Deeds : <<c, does>> \notin confirmed'
  BY DEF OnlyIssued, Inodes
<1> DEFINE Goal == /\ creds'[c] = NoCred
                   /\ \A w \in Workers : job'[w].out[c] = NoCred
                   /\ \A i \in Inodes : data'[i] \in Store => data'[i][c] = NoCred
                   /\ \A does \in Deeds : <<c, does>> \notin confirmed'
<1>0. NoCreds[c] = NoCred /\ Idle.out = NoCreds /\ Empty \notin Store /\ Torn \notin Store
  BY PairingAssumption DEF NoCreds, Idle, PairingAssumption
<1>1. ASSUME NEW w \in Workers, NEW k \in CodeIDs, Redeem(w, k) PROVE Goal
  <2>1. PICK d \in CredIDs : Issue(w, k, d)
    BY <1>1 DEF Redeem
  <2>2. /\ source'[d] = k
        /\ \A e \in CredIDs : e # d => source'[e] = source[e]
        /\ \A e \in CredIDs : e # d => creds'[e] = creds[e]
    BY <2>1 DEF Issue, Types, Store
  <2>3. c # d /\ source[c] = NoID /\ creds'[c] = creds[c]
    BY <2>2 DEF NoID, CodeIDs
  <2>4. /\ job'[w].out = NoCreds /\ \A v \in Workers : v # w => job'[v] = job[v]
        /\ data' = data /\ confirmed' = confirmed
    BY <2>1, IssueEffect DEF files
  <2>. QED
    BY <1>0, <2>3, <2>4 DEF OnlyIssued
<1>2. ASSUME NEW w \in Workers, NEW d \in CredIDs, Revoke(w, d) PROVE Goal
  <2>1. source[c] = NoID /\ c # d
    BY <1>2, RevokeEffect DEF OnlyIssued
  <2>. QED
    BY <1>0, <1>2, <2>1, RevokeEffect DEF OnlyIssued, files
<1>3. ASSUME NEW w \in Workers, DropToken(w) PROVE Goal
  BY <1>3, DropEffect DEF OnlyIssued, files
<1>4. ASSUME NEW w \in Workers, Export(w) PROVE Goal
  BY <1>4, ExportEffect DEF OnlyIssued, files
<1>5. ASSUME NEW w \in Workers, Create(w) PROVE Goal
  BY <1>0, <1>5, CreateEffect DEF OnlyIssued
<1>6. ASSUME NEW w \in Workers, Write(w) PROVE Goal
  BY <1>0, <1>6, WriteEffect DEF OnlyIssued
<1>7. ASSUME NEW w \in Workers, WriteFails(w) PROVE Goal
  BY <1>0, <1>7, FailEffect DEF OnlyIssued, files
<1>8. ASSUME NEW w \in Workers, Rename(w) PROVE Goal
  <2>1. source[c] = NoID /\ creds' = creds
    BY <1>8, RenameEffect
  <2>2. job[w].cred # c
    BY <1>8, <2>1, RenameEffect DEF Remembers, Shows, OnlyIssued
  <2>3. \A does \in Deeds : <<c, does>> \notin confirmed'
    BY <1>8, <2>1, <2>2, RenameEffect DEF OnlyIssued
  <2>4. \A i \in Inodes : data'[i] \in Store => data'[i] = data[i]
    BY <1>0, <1>8, RenameEffect DEF files
  <2>. QED
    BY <1>0, <1>8, <2>1, <2>3, <2>4, RenameEffect DEF OnlyIssued
<1>9. ASSUME Crash PROVE Goal
  BY <1>0, <1>9 DEF Crash, OnlyIssued, files
<1>10. ASSUME Start PROVE Goal
  <2>1. Loaded[c] = NoCred
    BY <1>0, <1>10 DEF Start, Loaded, Readable, OnlyIssued, Types
  <2>. QED
    BY <1>10, <2>1 DEF Start, OnlyIssued, files
<1>11. ASSUME UNCHANGED <<creds, source, job, files, up, confirmed, overlapped>> PROVE Goal
  BY <1>11 DEF OnlyIssued, files
<1>12. Goal
  BY <1>1, <1>2, <1>3, <1>4, <1>5, <1>6, <1>7, <1>8, <1>9, <1>10, <1>11, StoreSteps
<1>. QED
  BY <1>12


LEMMA RemembersStep ==
  Types /\ Named /\ OnlyIssued /\ Remembers /\ Saved /\ [Next]_vars => Remembers'
<1> SUFFICES ASSUME Types, Named, OnlyIssued, Remembers, Saved, [Next]_vars
             PROVE  Remembers'
  OBVIOUS
\* Jobs go on with what they have, over the same or more credentials.
<1>0. ASSUME up' = up, confirmed' = confirmed,
             \A c \in CredIDs, does \in Deeds : Shows(creds, c, does) => Shows(creds', c, does),
             NEW w \in Workers,
             \A v \in Workers : v # w =>
               /\ job'[v].pc = job[v].pc /\ job'[v].cred = job[v].cred
               /\ job'[v].does = job[v].does,
             job'[w].pc # "idle" => up /\ Shows(creds', job'[w].cred, job'[w].does)
      PROVE  Remembers'
  <2>1. up => ShowsAll(creds)'
    BY <1>0 DEF Remembers, ShowsAll
  <2>2. ASSUME NEW v \in Workers, job'[v].pc # "idle"
        PROVE  up /\ Shows(creds', job'[v].cred, job'[v].does)
    <3>1. CASE v = w
      BY <1>0, <2>2, <3>1
    <3>2. CASE v # w
      <4>1. up /\ Shows(creds, job[v].cred, job[v].does)
        BY <1>0, <2>2, <3>2 DEF Remembers
      <4>2. job[v].cred \in CredIDs /\ job[v].does \in Deeds
        BY <1>0, <2>2, <3>2, JobFields DEF Named
      <4>. QED
        BY <1>0, <3>2, <4>1, <4>2
    <3>. QED
      BY <3>1, <3>2
  <2>. QED
    BY <1>0, <2>1, <2>2 DEF Remembers, Shows
<1>1. ASSUME NEW w \in Workers, NEW k \in CodeIDs, Redeem(w, k) PROVE Remembers'
  <2>1. PICK c \in CredIDs : Issue(w, k, c)
    BY <1>1 DEF Redeem
  <2>2. /\ source[c] = NoID /\ up
        /\ creds'[c] = [role |-> codes[k].role, revoked |-> FALSE]
        /\ \A d \in CredIDs : d # c => creds'[d] = creds[d]
        /\ job'[w].does = "issue" /\ job'[w].cred = c
        /\ \A v \in Workers : v # w => job'[v] = job[v]
        /\ up' = up /\ confirmed' = confirmed
    <3>1. source[c] = NoID /\ up /\ up' = up /\ confirmed' = confirmed
      BY <1>1, <2>1 DEF Redeem, Issue, Issued
    <3>2. /\ creds'[c] = [role |-> codes[k].role, revoked |-> FALSE]
          /\ \A d \in CredIDs : d # c => creds'[d] = creds[d]
      BY <2>1 DEF Issue, Types, Store
    <3>3. /\ job'[w].does = "issue" /\ job'[w].cred = c
          /\ \A v \in Workers : v # w => job'[v] = job[v]
      BY <2>1 DEF Issue, Types, Idle
    <3>. QED
      BY <3>1, <3>2, <3>3
  <2>3. creds[c] = NoCred
    BY <2>2 DEF OnlyIssued
  <2>4. creds'[c] # NoCred
    <3>1. [role |-> codes[k].role, revoked |-> FALSE] \in Credential
      BY <1>1, UnexpiredType DEF Redeem, Types, Code, Credential
    <3>. QED
      BY <2>2, <3>1, PairingAssumption DEF PairingAssumption
  <2>. QED
    BY <1>0, <2>2, <2>3, <2>4 DEF Shows
<1>2. ASSUME NEW w \in Workers, NEW c \in CredIDs, Revoke(w, c) PROVE Remembers'
  <2>1. /\ up /\ creds'[c] # NoCred /\ creds'[c].revoked
        /\ \A d \in CredIDs : d # c => creds'[d] = creds[d]
        /\ job'[w].cred = c
        /\ \A v \in Workers : v # w => job'[v] = job[v]
        /\ up' = up /\ confirmed' = confirmed
    BY <1>2, RevokeEffect
  <2>. QED
    BY <1>0, <2>1 DEF Shows
<1>3. ASSUME NEW w \in Workers, DropToken(w) PROVE Remembers'
  BY <1>0, <1>3, DropEffect DEF Remembers
<1>4. ASSUME NEW w \in Workers, Export(w) PROVE Remembers'
  BY <1>0, <1>4, ExportEffect DEF Remembers
<1>5. ASSUME NEW w \in Workers, Create(w) PROVE Remembers'
  BY <1>0, <1>5, CreateEffect DEF Remembers
<1>6. ASSUME NEW w \in Workers, Write(w) PROVE Remembers'
  <2>1. /\ job[w].pc = "write" /\ \A v \in Workers : v # w => job'[v] = job[v]
        /\ job'[w].cred = job[w].cred /\ job'[w].does = job[w].does
        /\ UNCHANGED <<creds, up, confirmed>>
    BY <1>6 DEF Write, Types, Job, ceremony
  <2>. QED
    BY <1>0, <2>1 DEF Remembers
<1>7. ASSUME NEW w \in Workers, WriteFails(w) PROVE Remembers'
  BY <1>0, <1>7, FailEffect DEF Idle
<1>8. ASSUME NEW w \in Workers, Rename(w) PROVE Remembers'
  <2>1. /\ job[w].pc = "rename" /\ job'[w].pc = "idle" /\ up
        /\ \A v \in Workers : v # w => job'[v] = job[v]
        /\ UNCHANGED <<creds, source, up>>
        /\ confirmed' \subseteq confirmed \cup {<<job[w].cred, job[w].does>>}
    BY <1>8, RenameEffect DEF Idle
  <2>2. Shows(creds, job[w].cred, job[w].does)
    BY <2>1 DEF Remembers
  <2>3. ShowsAll(creds)'
    BY <2>1, <2>2 DEF Remembers, ShowsAll, Shows
  <2>4. \A v \in Workers : job'[v].pc # "idle" =>
          up' /\ Shows(creds', job'[v].cred, job'[v].does)
    BY <2>1 DEF Remembers
  <2>. QED
    BY <2>3, <2>4 DEF Remembers, Shows
<1>9. ASSUME Crash PROVE Remembers'
  BY <1>9 DEF Crash, Remembers, Idle
<1>10. ASSUME Start PROVE Remembers'
  <2>1. \A w \in Workers : job'[w].pc = "idle"
    BY <1>10 DEF Start, Remembers
  <2>2. CASE overlapped
    BY <1>10, <2>1, <2>2 DEF Start, Remembers, ShowsAll
  <2>3. CASE ~overlapped
    BY <1>10, <2>1, <2>3 DEF Start, Remembers, ShowsAll, Saved, Shows
  <2>. QED
    BY <2>2, <2>3
<1>11. ASSUME UNCHANGED <<creds, source, job, files, up, confirmed, overlapped>> PROVE Remembers'
  BY <1>11 DEF Remembers, ShowsAll, Shows
<1>. QED
  BY <1>1, <1>2, <1>3, <1>4, <1>5, <1>6, <1>7, <1>8, <1>9, <1>10, <1>11, StoreSteps

LEMMA AllAloneStep ==
  Types /\ Names /\ Remembers /\ AloneIsSound /\ AllAlone /\ [Next]_vars => AllAlone'
<1> SUFFICES ASSUME Types, Names, Remembers, AloneIsSound, AllAlone, [Next]_vars,
                    ~overlapped', NEW v \in Workers, Saving(v)'
             PROVE  job'[v].alone
  BY DEF AllAlone
<1> USE DEF Saving
<1>1. ASSUME NEW w \in Workers, NEW k \in CodeIDs, Redeem(w, k) PROVE job'[v].alone
  <2>1. PICK c \in CredIDs : Issue(w, k, c)
    BY <1>1 DEF Redeem
  <2>. QED
    BY <2>1, IssueEffect DEF AllAlone
<1>2. ASSUME NEW w \in Workers, NEW c \in CredIDs, Revoke(w, c) PROVE job'[v].alone
  BY <1>2, RevokeEffect DEF AllAlone
<1>3. ASSUME NEW w \in Workers, DropToken(w) PROVE job'[v].alone
  BY <1>3, DropEffect DEF AllAlone
<1>4. ASSUME NEW w \in Workers, Export(w) PROVE job'[v].alone
  BY <1>4, ExportEffect
<1>5. ASSUME NEW w \in Workers, Create(w) PROVE job'[v].alone
  BY <1>5, CreateEffect DEF AllAlone
<1>6. ASSUME NEW w \in Workers, Write(w) PROVE job'[v].alone
  BY <1>6, WriteEffect DEF AllAlone
<1>7. ASSUME NEW w \in Workers, WriteFails(w) PROVE job'[v].alone
  BY <1>7, FailEffect DEF AllAlone, Idle
<1>8. ASSUME NEW w \in Workers, Rename(w) PROVE job'[v].alone
  <2>1. v # w /\ job'[v] = job[v] /\ Saving(w) /\ Saving(v)
    BY <1>8, RenameEffect DEF Idle
  <2>2. ~overlapped \/ job[w].alone
    BY <1>8, RenameEffect DEF files
  <2>. QED
    BY <2>1, <2>2 DEF AllAlone, AloneIsSound
<1>9. ASSUME Crash PROVE job'[v].alone
  BY <1>9 DEF Crash, Idle
<1>10. ASSUME Start PROVE job'[v].alone
  BY <1>10 DEF Start, Remembers
<1>11. ASSUME UNCHANGED <<creds, source, job, files, up, confirmed, overlapped>>
       PROVE  job'[v].alone
  BY <1>11 DEF AllAlone
<1>. QED
  BY <1>1, <1>2, <1>3, <1>4, <1>5, <1>6, <1>7, <1>8, <1>9, <1>10, <1>11, StoreSteps


LEMMA AloneStep ==
  Types /\ Named /\ Names /\ Remembers /\ AloneIsSound /\ [Next]_vars => AloneIsSound'
<1> SUFFICES ASSUME Types, Named, Names, Remembers, AloneIsSound, [Next]_vars PROVE AloneIsSound'
  OBVIOUS
\* A worker that is alone stays so if it and the files stay as they are and no
\* other worker starts to save.
<1>0. ASSUME UNCHANGED <<tmp, data, confirmed>>,
             NEW w \in Workers, ~Saving(w)', \A v \in Workers : v # w => job'[v] = job[v]
      PROVE  AloneIsSound'
  BY <1>0 DEF AloneIsSound, Saving, ShowsAll, Shows
\* Whoever is alone after a step of a worker that saves is that worker.
<1>a. ASSUME NEW w \in Workers, Saving(w), NEW v \in Workers, v # w,
             job'[v] = job[v], Saving(v)', job'[v].alone
      PROVE  FALSE
  BY <1>a DEF AloneIsSound, Saving
<1>1. ASSUME NEW w \in Workers, NEW k \in CodeIDs, Redeem(w, k) PROVE AloneIsSound'
  <2>1. PICK c \in CredIDs : Issue(w, k, c)
    BY <1>1 DEF Redeem
  <2>2. job'[w].pc = "export" /\ \A v \in Workers : v # w => job'[v] = job[v]
    BY <2>1 DEF Issue, Types, Idle
  <2>3. UNCHANGED <<tmp, data, confirmed>>
    BY <2>1 DEF Issue, files
  <2>. QED
    BY <1>0, <2>2, <2>3 DEF Saving
<1>2. ASSUME NEW w \in Workers, NEW c \in CredIDs, Revoke(w, c) PROVE AloneIsSound'
  BY <1>0, <1>2, RevokeEffect DEF Saving, files
<1>3. ASSUME NEW w \in Workers, DropToken(w) PROVE AloneIsSound'
  BY <1>0, <1>3, DropEffect DEF Saving, files
<1>4. ASSUME NEW w \in Workers, Export(w) PROVE AloneIsSound'
  <2>1. \A v \in Workers : v # w /\ Saving(v)' => ~job'[v].alone
    BY <1>4, ExportEffect DEF Saving
  <2>2. ASSUME job'[w].alone
        PROVE  /\ \A v \in Workers : Saving(v)' => v = w
               /\ job'[w].pc = "create"
               /\ ShowsAll(job[w].out)' /\ Shows(job'[w].out, job'[w].cred, job'[w].does)
    <3>1. \A v \in Workers : Saving(v)' => v = w
      BY <1>4, <2>2, ExportEffect DEF Saving
    <3>2. /\ up /\ job[w].pc = "export" /\ job'[w].out = creds /\ confirmed' = confirmed
          /\ job'[w].cred = job[w].cred /\ job'[w].does = job[w].does
          /\ job'[w].pc = "create"
      BY <1>4, ExportEffect
    <3>3. ShowsAll(creds) /\ Shows(creds, job[w].cred, job[w].does)
      BY <3>2 DEF Remembers
    <3>. QED
      BY <3>1, <3>2, <3>3 DEF ShowsAll, Shows
  <2>. QED
    BY <2>1, <2>2 DEF AloneIsSound
<1>5. ASSUME NEW w \in Workers, Create(w) PROVE AloneIsSound'
  <2>1. /\ Saving(w) /\ job'[w].pc = "write" /\ job'[w].fd = tmp' /\ data'[tmp'] = Empty
        /\ \A v \in Workers : v # w => job'[v] = job[v]
    BY <1>5, CreateEffect DEF Saving
  <2>2. \A v \in Workers : Saving(v)' /\ job'[v].alone => v = w
    BY <1>a, <2>1
  <2>3. ASSUME job'[w].alone
        PROVE  /\ \A v \in Workers : Saving(v)' => v = w
               /\ ShowsAll(job[w].out)' /\ Shows(job'[w].out, job'[w].cred, job'[w].does)
    <3>1. /\ job[w].alone /\ job[w].pc = "create" /\ job'[w].out = job[w].out
          /\ confirmed' = confirmed
          /\ job'[w].cred = job[w].cred /\ job'[w].does = job[w].does
      BY <1>5, <2>3, CreateEffect
    <3>2. \A v \in Workers : Saving(v) => v = w
      BY <2>1, <3>1 DEF AloneIsSound
    <3>3. \A v \in Workers : Saving(v)' => v = w
      BY <2>1, <3>2 DEF Saving
    <3>4. ShowsAll(job[w].out) /\ Shows(job[w].out, job[w].cred, job[w].does)
      BY <2>1, <3>1 DEF AloneIsSound
    <3>. QED
      BY <3>1, <3>3, <3>4 DEF ShowsAll, Shows
  <2>. QED
    BY <2>1, <2>2, <2>3 DEF AloneIsSound
<1>6. ASSUME NEW w \in Workers, Write(w) PROVE AloneIsSound'
  <2>1. /\ Saving(w) /\ job[w].pc = "write" /\ job'[w].pc = "rename"
        /\ job'[w].fd = job[w].fd /\ tmp' = tmp /\ confirmed' = confirmed
        /\ \A v \in Workers : v # w => job'[v] = job[v]
        /\ job'[w].alone = job[w].alone
        /\ job'[w].cred = job[w].cred /\ job'[w].does = job[w].does
    BY <1>6, WriteEffect DEF Saving
  <2>2. \A v \in Workers : Saving(v)' /\ job'[v].alone => v = w
    BY <1>a, <2>1
  <2>3. ASSUME job'[w].alone
        PROVE  /\ \A v \in Workers : Saving(v)' => v = w
               /\ tmp' = job'[w].fd /\ data'[tmp'] \in Store
               /\ ShowsAll(data[tmp])' /\ Shows(data'[tmp'], job'[w].cred, job'[w].does)
    <3>1. /\ \A v \in Workers : Saving(v) => v = w
          /\ tmp = job[w].fd /\ data[tmp] = Empty
          /\ ShowsAll(job[w].out) /\ Shows(job[w].out, job[w].cred, job[w].does)
      BY <2>1, <2>3 DEF AloneIsSound
    <3>2. \A v \in Workers : Saving(v)' => v = w
      BY <2>1, <3>1 DEF Saving
    <3>3. data'[tmp'] = job[w].out /\ job[w].out \in Store
      BY <1>6, <2>1, <3>1, WriteEffect, JobFields
    <3>. QED
      BY <2>1, <3>1, <3>2, <3>3 DEF ShowsAll, Shows
  <2>. QED
    BY <2>1, <2>2, <2>3 DEF AloneIsSound
<1>7. ASSUME NEW w \in Workers, WriteFails(w) PROVE AloneIsSound'
  <2>1. ~Saving(w)' /\ \A v \in Workers : v # w => job'[v] = job[v]
    BY <1>7, FailEffect DEF Idle, Saving
  <2>. QED
    BY <1>0, <1>7, <2>1, FailEffect DEF files
<1>8. ASSUME NEW w \in Workers, Rename(w) PROVE AloneIsSound'
  <2>1. Saving(w) /\ ~Saving(w)' /\ \A v \in Workers : v # w => job'[v] = job[v]
    BY <1>8, RenameEffect DEF Idle, Saving
  <2>2. \A v \in Workers : ~(Saving(v)' /\ job'[v].alone)
    BY <1>a, <2>1
  <2>. QED
    BY <2>2 DEF AloneIsSound
<1>9. ASSUME Crash PROVE AloneIsSound'
  BY <1>9 DEF Crash, Idle, AloneIsSound, Saving
<1>10. ASSUME Start PROVE AloneIsSound'
  <2>1. \A v \in Workers : ~Saving(v)'
    BY <1>10 DEF Start, Remembers, Saving
  <2>. QED
    BY <2>1 DEF AloneIsSound
<1>11. ASSUME UNCHANGED <<creds, source, job, files, up, confirmed, overlapped>>
       PROVE  AloneIsSound'
  BY <1>11 DEF AloneIsSound, Saving, ShowsAll, Shows, files
<1>. QED
  BY <1>1, <1>2, <1>3, <1>4, <1>5, <1>6, <1>7, <1>8, <1>9, <1>10, <1>11, StoreSteps

LEMMA SavedStep ==
  Types /\ Types' /\ Names /\ AloneIsSound /\ AllAlone /\ Saved /\ [Next]_vars => Saved'
<1> SUFFICES ASSUME Types, Types', Names, AloneIsSound, AllAlone, Saved, [Next]_vars, ~overlapped'
             PROVE  (Readable /\ ShowsAll(Loaded))'
  BY DEF Saved
<1> DEFINE Goal == (Readable /\ ShowsAll(Loaded))'
\* The file that has the name is left alone.
<1>0. ASSUME path' = path, confirmed' = confirmed, ~overlapped,
             path # NoFile => data'[path] = data[path]
      PROVE  Goal
  BY <1>0 DEF Saved, Readable, Loaded, ShowsAll, Shows, NoCreds
<1> HIDE DEF Goal
<1>1. ASSUME NEW w \in Workers, NEW k \in CodeIDs, Redeem(w, k) PROVE Goal
  <2>1. PICK c \in CredIDs : Issue(w, k, c)
    BY <1>1 DEF Redeem
  <2>. QED
    BY <1>0, <2>1 DEF Issue, files
<1>2. ASSUME NEW w \in Workers, NEW c \in CredIDs, Revoke(w, c) PROVE Goal
  BY <1>0, <1>2, RevokeEffect DEF files
<1>3. ASSUME NEW w \in Workers, DropToken(w) PROVE Goal
  BY <1>0, <1>3, DropEffect DEF files
<1>4. ASSUME NEW w \in Workers, Export(w) PROVE Goal
  BY <1>0, <1>4, ExportEffect DEF files
<1>5. ASSUME NEW w \in Workers, Create(w) PROVE Goal
  <2>1. path # NoFile => path \in Inodes /\ tmp' # path
    BY <1>5, CreateEffect DEF Names, Types
  <2>. QED
    BY <1>0, <1>5, <2>1, CreateEffect
<1>6. ASSUME NEW w \in Workers, Write(w) PROVE Goal
  <2>1. overlapped' = overlapped /\ job[w].pc = "write"
    BY <1>6, WriteEffect
  <2>2. tmp = job[w].fd
    BY <2>1 DEF AllAlone, AloneIsSound, Saving
  <2>3. path # NoFile => path \in Inodes /\ job[w].fd # path
    BY <2>2 DEF Names, Types
  <2>. QED
    BY <1>0, <1>6, <2>1, <2>3, WriteEffect
<1>7. ASSUME NEW w \in Workers, WriteFails(w) PROVE Goal
  BY <1>0, <1>7, FailEffect DEF files
<1>8. ASSUME NEW w \in Workers, Rename(w) PROVE Goal
  <2>1. CASE tmp = NoFile
    BY <1>0, <1>8, <2>1, RenameEffect DEF files
  <2>2. CASE tmp # NoFile
    <3>1. /\ job[w].pc = "rename" /\ job[w].alone
      BY <1>8, <2>2, RenameEffect DEF AllAlone, Saving
    <3>2. data[tmp] \in Store /\ ShowsAll(data[tmp]) /\ Shows(data[tmp], job[w].cred, job[w].does)
      BY <3>1 DEF AloneIsSound, Saving
    <3>3. tmp \in Inodes /\ tmp # path
      BY <2>2 DEF Names, Types
    <3>4. /\ path' = tmp /\ data'[tmp] = data[tmp]
          /\ confirmed' = confirmed \cup {<<job[w].cred, job[w].does>>}
      BY <1>8, <2>2, <3>3, RenameEffect
    <3>5. Readable' /\ Loaded' = data[tmp]
      BY <2>2, <3>2, <3>4, PairingAssumption DEF Readable, Loaded, PairingAssumption
    <3>. QED
      BY <3>2, <3>4, <3>5 DEF Goal, ShowsAll, Shows
  <2>. QED
    BY <2>1, <2>2
<1>9. ASSUME Crash PROVE Goal
  BY <1>0, <1>9 DEF Crash, files
<1>10. ASSUME Start PROVE Goal
  <2>1. CASE overlapped
    BY <1>10, <2>1 DEF Start, Goal, Readable, ShowsAll, files
  <2>2. CASE ~overlapped
    BY <1>0, <1>10, <2>2 DEF Start, files
  <2>. QED
    BY <2>1, <2>2
<1>11. ASSUME UNCHANGED <<creds, source, job, files, up, confirmed, overlapped>> PROVE Goal
  BY <1>0, <1>11 DEF files
<1>12. Goal
  BY <1>1, <1>2, <1>3, <1>4, <1>5, <1>6, <1>7, <1>8, <1>9, <1>10, <1>11, StoreSteps
<1>. QED
  BY <1>12 DEF Goal

\* What an administrator was told has happened survives every crash and failed
\* write, and the file always parses, unless saves overlapped since the last sound
\* one (persistCredentials, store.Save).
THEOREM ConfirmedIsDurable == Spec => []Durable
<1>1. Init => Kept
  <2> SUFFICES ASSUME Init PROVE Kept
    OBVIOUS
  <2>1. /\ creds = NoCreds /\ job = [w \in Workers |-> Idle]
        /\ path = NoFile /\ tmp = NoFile /\ data = [i \in Inodes |-> Empty]
        /\ confirmed = {} /\ \A w \in Workers : job[w] = Idle
    BY DEF Init
  <2>2. Remembers /\ Names /\ AloneIsSound /\ AllAlone
    BY <2>1 DEF Remembers, Names, AloneIsSound, AllAlone, ShowsAll, Idle, Saving
  <2>3. OnlyIssued
    BY <2>1, PairingAssumption DEF OnlyIssued, NoCreds, Idle, PairingAssumption
  <2>4. Saved
    BY <2>1 DEF Saved, Readable, ShowsAll
  <2>. QED
    BY <2>2, <2>3, <2>4 DEF Kept
<1>2. Types /\ Types' /\ Named /\ Kept /\ [Next]_vars => Kept'
  BY NamesStep, OnlyIssuedStep, RemembersStep, AllAloneStep, AloneStep, SavedStep DEF Kept
<1>3. Types /\ Kept => Durable
  <2> SUFFICES ASSUME Types, Kept, ~overlapped, NEW done \in confirmed
               PROVE  /\ Readable /\ Loaded[done[1]] # NoCred
                      /\ done[2] = "revoke" => Loaded[done[1]].revoked
    BY DEF Durable, Kept, Saved
  <2>1. PICK c \in CredIDs, does \in Deeds : done = <<c, does>>
    BY DEF Types, Deeds
  <2>. QED
    BY <2>1 DEF Kept, Saved, ShowsAll, Shows
<1>. QED
  BY <1>1, <1>2, <1>3, TypesHold, PTL DEF Spec

=============================================================================
