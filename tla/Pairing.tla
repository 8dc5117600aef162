------------------------------ MODULE Pairing -------------------------------
(***************************************************************************)
(* Pairing on the Edge: the ceremony (internal/pairing/pairing.go), the    *)
(* credential file (store.go), revocation (internal/edge/pairing.go) and   *)
(* the feed connections that authenticate with a credential (server.go).   *)
(*                                                                         *)
(* Every method of Ceremony runs under its mutex and is one action.        *)
(* RevokePairing and a redemption go on after it: they drop connections    *)
(* and save the credentials, each administration request in a goroutine of *)
(* its own.  A token is as good a name of a credential as its ID, so both  *)
(* are the credential's number.                                            *)
(***************************************************************************)
EXTENDS Naturals, FiniteSets

CONSTANTS
  Workers,           \* goroutines that change credentials and save them
  Feeds,             \* feed connections
  MaxPendingCodes, CodeTTL,               \* constants of pairing.go
  RoleAsked,         \* the role every request asks for, in their order
  EntropyMayFail,    \* whether crypto/rand may return an error
  WriteMayFail,      \* whether writing the file may fail (a full disk)
  MaxCodes, MaxCreds, MaxNow, MaxCrashes, \* bounds
  NoCode, NoCred,    \* absent values
  Empty, Torn        \* file contents that do not parse

Roles   == {"feed", "edge-ingress"}
CodeIDs == 1..MaxCodes
CredIDs == 1..MaxCreds
NoID    == 0
Code       == [role : Roles, expiresAt : Nat, approved : BOOLEAN]
Credential == [role : Roles, revoked : BOOLEAN]
Store      == [CredIDs -> Credential \cup {NoCred}]

\* Enough files for every open descriptor and the two names.
Inodes == 1..(Cardinality(Workers) + 2)
NoFile == 0

Job ==
  [pc : {"idle", "drop", "export", "create", "write", "rename"},
   does : {"revoke", "issue"}, cred : CredIDs \cup {NoID},
   out : Store, fd : Inodes \cup {NoFile}, alone : BOOLEAN]

Feed ==
  [stage : {"closed", "upgrading", "live"}, cred : CredIDs \cup {NoID},
   late : BOOLEAN]

ASSUME PairingAssumption ==
  /\ MaxPendingCodes \in Nat \ {0} /\ CodeTTL \in Nat
  /\ EntropyMayFail \in BOOLEAN /\ WriteMayFail \in BOOLEAN
  /\ MaxCodes \in Nat /\ MaxCreds \in Nat /\ MaxNow \in Nat /\ MaxCrashes \in Nat
  /\ IsFiniteSet(Workers)
  /\ RoleAsked \in [CodeIDs -> Roles]
  /\ NoCode \notin Code /\ NoCred \notin Credential
  /\ Empty \notin Store /\ Torn \notin Store

VARIABLES
  codes,       \* c.codes
  creds,       \* c.credentials and c.byToken
  job,         \* what every worker is doing
  feeds,       \* the feed connections; the hub holds the live ones
  path, tmp,   \* the files called pairings.json and pairings.json.tmp
  data,        \* what every file holds
  now, up, crashes,
  asked,       \* codes handed out
  source,      \* history: the code each credential was issued for
  confirmed,   \* history: what was answered with success
  overlapped   \* history: two saves overlapped since the last sound one

ceremony == <<codes, creds, asked, source>>
files    == <<path, tmp, data>>
vars     == <<ceremony, job, feeds, files, now, up, crashes, confirmed, overlapped>>

-----------------------------------------------------------------------------
NoCreds == [c \in CredIDs |-> NoCred]

Idle == [pc |-> "idle", does |-> "revoke", cred |-> NoID, out |-> NoCreds,
         fd |-> NoFile, alone |-> FALSE]

Closed == [stage |-> "closed", cred |-> NoID, late |-> FALSE]

Saving(w) == job[w].pc \in {"create", "write", "rename"}

\* What Load reads; a missing file is an empty store.
Readable == IF path = NoFile THEN TRUE ELSE data[path] \notin {Empty, Torn}
Loaded   == IF path = NoFile THEN NoCreds ELSE data[path]

Init ==
  /\ codes = [k \in CodeIDs |-> NoCode]
  /\ creds = NoCreds
  /\ job = [w \in Workers |-> Idle]
  /\ feeds = [f \in Feeds |-> Closed]
  /\ path = NoFile /\ tmp = NoFile
  /\ data = [i \in Inodes |-> Empty]
  /\ now = 0 /\ up = TRUE /\ crashes = 0
  /\ asked = 0
  /\ source = [c \in CredIDs |-> NoID]
  /\ confirmed = {}
  /\ overlapped = FALSE

-----------------------------------------------------------------------------
(* The ceremony *)

\* expireLocked: the codes that are left.
Unexpired ==
  [k \in CodeIDs |-> IF codes[k] = NoCode THEN NoCode
                     ELSE IF now > codes[k].expiresAt THEN NoCode ELSE codes[k]]

Outstanding(cs) == {k \in CodeIDs : cs[k] # NoCode}

RequestCode ==
  /\ up /\ asked < MaxCodes
  /\ Cardinality(Outstanding(Unexpired)) < MaxPendingCodes
  /\ asked' = asked + 1
  /\ codes' = [Unexpired EXCEPT ![asked + 1] =
       [role |-> RoleAsked[asked + 1], expiresAt |-> now + CodeTTL, approved |-> FALSE]]
  /\ UNCHANGED <<creds, source, job, feeds, files, now, up, crashes>>
  /\ UNCHANGED <<confirmed, overlapped>>

\* Pending, and every request that is refused after expireLocked: too many
\* codes, an unknown code, one that is not approved.
Pending ==
  /\ up
  /\ codes' = Unexpired
  /\ UNCHANGED <<creds, asked, source, job, feeds, files, now, up, crashes>>
  /\ UNCHANGED <<confirmed, overlapped>>

Approve(k) ==
  /\ up /\ Unexpired[k] # NoCode
  /\ codes' = [Unexpired EXCEPT ![k].approved = TRUE]
  /\ UNCHANGED <<creds, asked, source, job, feeds, files, now, up, crashes>>
  /\ UNCHANGED <<confirmed, overlapped>>

\* Deny does not expire codes first.
Deny(k) ==
  /\ up /\ codes[k] # NoCode
  /\ codes' = [codes EXCEPT ![k] = NoCode]
  /\ UNCHANGED <<creds, asked, source, job, feeds, files, now, up, crashes>>
  /\ UNCHANGED <<confirmed, overlapped>>

Issued == {c \in CredIDs : source[c] # NoID}

\* A new credential c for the code k, which worker w will save.
Issue(w, k, c) ==
  /\ c \notin Issued /\ \A d \in CredIDs \ Issued : c <= d
  /\ creds' = [creds EXCEPT ![c] = [role |-> codes[k].role, revoked |-> FALSE]]
  /\ source' = [source EXCEPT ![c] = k]
  /\ job' = [job EXCEPT ![w] = [Idle EXCEPT !.pc = "export", !.does = "issue",
                                            !.cred = c]]
  /\ UNCHANGED <<asked, feeds, files, now, up, crashes, confirmed, overlapped>>

\* Mutant: the code is looked up before the expired ones are dropped.
RedeemExpired(w, k) ==
  /\ up /\ job[w].pc = "idle"
  /\ codes[k] # NoCode /\ codes[k].approved
  /\ codes' = [Unexpired EXCEPT ![k] = NoCode]
  /\ \E c \in CredIDs : Issue(w, k, c)

\* The code is consumed and deleted, then the credential is made.
Redeem(w, k) ==
  /\ up /\ job[w].pc = "idle"
  /\ Unexpired[k] # NoCode /\ codes[k].approved
  /\ codes' = [Unexpired EXCEPT ![k] = NoCode]
  /\ \E c \in CredIDs : Issue(w, k, c)

\* ... or crypto/rand fails once the code is gone.
RedeemFails(k) ==
  /\ up /\ EntropyMayFail
  /\ Unexpired[k] # NoCode /\ codes[k].approved
  /\ codes' = [Unexpired EXCEPT ![k] = NoCode]
  /\ UNCHANGED <<creds, asked, source, job, feeds, files, now, up, crashes>>
  /\ UNCHANGED <<confirmed, overlapped>>

-----------------------------------------------------------------------------
(* RevokePairing; and persistCredentials, which it shares with a redemption *)

\* Mutant: the token is looked up in List, which redacts it.
RevokeByList(w, c) ==
  /\ up /\ job[w].pc = "idle" /\ creds[c] # NoCred
  /\ creds' = [creds EXCEPT ![c].revoked = TRUE]
  /\ job' = [job EXCEPT ![w] = [Idle EXCEPT !.pc = "export", !.cred = c]]
  /\ UNCHANGED <<codes, asked, source, feeds, files, now, up, crashes>>
  /\ UNCHANGED <<confirmed, overlapped>>

\* Export finds the token, then Revoke: credentials are never removed, so
\* nothing between the two can matter.
Revoke(w, c) ==
  /\ up /\ job[w].pc = "idle" /\ creds[c] # NoCred
  /\ creds' = [creds EXCEPT ![c].revoked = TRUE]
  /\ job' = [job EXCEPT ![w] = [Idle EXCEPT !.pc = "drop", !.cred = c]]
  /\ UNCHANGED <<codes, asked, source, feeds, files, now, up, crashes>>
  /\ UNCHANGED <<confirmed, overlapped>>

DropToken(w) ==
  /\ up /\ job[w].pc = "drop"
  /\ feeds' = [f \in Feeds |->
       IF feeds[f].stage = "live" /\ feeds[f].cred = job[w].cred THEN Closed
       ELSE feeds[f]]
  /\ job' = [job EXCEPT ![w].pc = "export"]
  /\ UNCHANGED <<ceremony, files, now, up, crashes, confirmed, overlapped>>

\* A second save starts before the first has ended: neither is alone.
Export(w) ==
  /\ up /\ job[w].pc = "export"
  /\ LET Others == {v \in Workers \ {w} : Saving(v)} IN
     /\ job' = [v \in Workers |->
          CASE v = w -> [job[w] EXCEPT !.pc = "create", !.out = creds,
                                       !.alone = (Others = {})]
            [] v \in Others -> [job[v] EXCEPT !.alone = FALSE]
            [] OTHER -> job[v]]
     /\ overlapped' = (overlapped \/ Others # {})
  /\ UNCHANGED <<ceremony, feeds, files, now, up, crashes, confirmed>>

\* Mutant: no second file, pairings.json itself is written.
CreateInPlace(w) ==
  /\ up /\ job[w].pc = "create"
  /\ \E i \in Inodes :
       /\ IF path # NoFile THEN i = path ELSE \A v \in Workers : i # job[v].fd
       /\ path' = i
       /\ data' = [data EXCEPT ![i] = Empty]
       /\ job' = [job EXCEPT ![w].pc = "write", ![w].fd = i]
  /\ UNCHANGED <<ceremony, feeds, tmp, now, up, crashes, confirmed, overlapped>>

\* WriteFile opens the file of this name and truncates it, or makes a new one.
Create(w) ==
  /\ up /\ job[w].pc = "create"
  /\ \E i \in Inodes :
       /\ IF tmp # NoFile THEN i = tmp
          ELSE /\ i # path /\ \A v \in Workers : i # job[v].fd
               /\ \A j \in 1..(i - 1) : j = path \/ \E v \in Workers : j = job[v].fd
       /\ tmp' = i
       /\ data' = [data EXCEPT ![i] = Empty]
       /\ job' = [job EXCEPT ![w].pc = "write", ![w].fd = i]
  /\ UNCHANGED <<ceremony, feeds, path, now, up, crashes, confirmed, overlapped>>

\* Over another's bytes the result is what the longer of the two leaves.
Write(w) ==
  /\ up /\ job[w].pc = "write"
  /\ \E written \in {job[w].out} \cup (IF data[job[w].fd] = Empty THEN {} ELSE {Torn}) :
       data' = [data EXCEPT ![job[w].fd] = written]
  /\ job' = [job EXCEPT ![w].pc = "rename", ![w].out = NoCreds]
  /\ UNCHANGED <<ceremony, feeds, path, tmp, now, up, crashes, confirmed, overlapped>>

\* The request is answered with the error; nothing is undone in memory.
WriteFails(w) ==
  /\ up /\ WriteMayFail /\ job[w].pc = "write"
  /\ job' = [job EXCEPT ![w] = Idle]
  /\ UNCHANGED <<ceremony, feeds, files, now, up, crashes, confirmed, overlapped>>

\* The file that had the name is gone, unless another save has it open.
Rename(w) ==
  /\ up /\ job[w].pc = "rename"
  /\ IF tmp = NoFile
     THEN UNCHANGED <<files, confirmed, overlapped>>   \* renamed by another
     ELSE /\ path' = tmp /\ tmp' = NoFile
          /\ data' = [i \in Inodes |->
               IF i = path /\ \A v \in Workers : job[v].fd # i THEN Empty ELSE data[i]]
          /\ confirmed' = confirmed \cup {<<job[w].cred, job[w].does>>}
          /\ overlapped' = (overlapped /\ ~job[w].alone)
  /\ job' = [job EXCEPT ![w] = Idle]
  /\ UNCHANGED <<ceremony, feeds, now, up, crashes>>

-----------------------------------------------------------------------------
(* Feed connections *)

Authenticate(f, c) ==
  /\ up /\ feeds[f].stage = "closed"
  /\ creds[c] # NoCred /\ ~creds[c].revoked /\ creds[c].role = "feed"
  /\ feeds' = [feeds EXCEPT ![f] = [Closed EXCEPT !.stage = "upgrading", !.cred = c]]
  /\ UNCHANGED <<ceremony, job, files, now, up, crashes, confirmed, overlapped>>

\* The upgrade is done and the hub learns of the connection; late says that its
\* credential was revoked in the meantime, which nobody looks at again.
Join(f) ==
  /\ up /\ feeds[f].stage = "upgrading"
  /\ feeds' = [feeds EXCEPT ![f].stage = "live",
                            ![f].late = creds[feeds[f].cred].revoked]
  /\ UNCHANGED <<ceremony, job, files, now, up, crashes, confirmed, overlapped>>

Leave(f) ==
  /\ up /\ feeds[f].stage # "closed"
  /\ feeds' = [feeds EXCEPT ![f] = Closed]
  /\ UNCHANGED <<ceremony, job, files, now, up, crashes, confirmed, overlapped>>

-----------------------------------------------------------------------------
(* The process *)

Crash ==
  /\ up /\ crashes < MaxCrashes
  /\ up' = FALSE /\ crashes' = crashes + 1
  /\ codes' = [k \in CodeIDs |-> NoCode]
  /\ creds' = NoCreds
  /\ job' = [w \in Workers |-> Idle]
  /\ feeds' = [f \in Feeds |-> Closed]
  /\ UNCHANGED <<asked, source, files, now, confirmed, overlapped>>

\* initPairing; a file that does not parse keeps the Edge from starting.  What
\* overlapping saves have lost is lost from here on.
Start ==
  /\ ~up /\ Readable
  /\ up' = TRUE
  /\ creds' = Loaded
  /\ confirmed' = IF overlapped THEN {} ELSE confirmed
  /\ overlapped' = FALSE
  /\ UNCHANGED <<codes, asked, source, job, feeds, files, now, crashes>>

Tick ==
  /\ now < MaxNow
  /\ now' = now + 1
  /\ UNCHANGED <<ceremony, job, feeds, files, up, crashes, confirmed, overlapped>>

Next ==
  \/ RequestCode
  \/ Pending
  \/ \E k \in CodeIDs : Approve(k) \/ Deny(k) \/ RedeemFails(k)
  \/ \E w \in Workers, k \in CodeIDs : Redeem(w, k)
  \/ \E w \in Workers, c \in CredIDs : Revoke(w, c)
  \/ \E w \in Workers :
       \/ DropToken(w) \/ Export(w) \/ Create(w)
       \/ Write(w) \/ WriteFails(w) \/ Rename(w)
  \/ \E f \in Feeds, c \in CredIDs : Authenticate(f, c)
  \/ \E f \in Feeds : Join(f) \/ Leave(f)
  \/ Crash
  \/ Start
  \/ Tick

Spec == Init /\ [][Next]_vars

-----------------------------------------------------------------------------
(* Properties *)

\* Types, and the bound on outstanding codes.
TypeOK ==
  /\ codes \in [CodeIDs -> Code \cup {NoCode}]
  /\ Cardinality(Outstanding(codes)) <= MaxPendingCodes
  /\ creds \in Store
  /\ job \in [Workers -> Job]
  /\ feeds \in [Feeds -> Feed]
  /\ path \in Inodes \cup {NoFile} /\ tmp \in Inodes \cup {NoFile}
  /\ data \in [Inodes -> Store \cup {Empty, Torn}]
  /\ now \in Nat /\ up \in BOOLEAN /\ crashes \in Nat
  /\ asked \in 0..MaxCodes
  /\ source \in [CredIDs -> CodeIDs \cup {NoID}]
  /\ confirmed \subseteq CredIDs \X {"revoke", "issue"}
  /\ overlapped \in BOOLEAN

\* A revocation disconnects every feed that uses the credential, whatever
\* connects meanwhile (RevokePairing, handleFeed): a live connection of a revoked
\* credential is about to be dropped, or was between its authentication and the
\* hub when the credential was revoked.
RevokedIsDropped ==
  \A f \in Feeds : feeds[f].stage = "live" /\ ~feeds[f].late
    => \/ ~creds[feeds[f].cred].revoked
       \/ \E w \in Workers : job[w].pc = "drop" /\ job[w].cred = feeds[f].cred

\* What an administrator was told has happened is in the file and survives a
\* crash at any moment, a failed write or another save after it; the file always
\* parses.  Only saves that overlap each other void this (Save, Import).
Durable ==
  ~overlapped =>
    /\ Readable
    /\ \A done \in confirmed :
         /\ Loaded[done[1]] # NoCred
         /\ done[2] = "revoke" => Loaded[done[1]].revoked

\* Expired codes are removed lazily, by whichever method comes next; seen from
\* outside a code is closed from the moment it expires, and is exchanged for at
\* most one credential, after an approval (Ceremony).
Promise == INSTANCE DeviceCodes WITH
  Codes <- CodeIDs, Credentials <- CredIDs,
  life <- [k \in CodeIDs |->
    IF k > asked THEN "unborn"
    ELSE IF Unexpired[k] = NoCode THEN "closed"
    ELSE IF Unexpired[k].approved THEN "approved" ELSE "waiting"],
  grants <- [k \in CodeIDs |-> {c \in CredIDs : source[c] = k}]

CodesAreOneUse == Promise!Spec
=============================================================================
