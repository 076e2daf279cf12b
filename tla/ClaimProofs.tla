----------------------------- MODULE ClaimProofs -----------------------------
(***************************************************************************)
(* Theorems about ClaimProvisioners, for any claims and names of claims,   *)
(* every provisioner, any range of GIDs and any number of faults.          *)
(***************************************************************************)
EXTENDS ClaimProvisioners, TLAPS, WellFoundedInduction

-----------------------------------------------------------------------------
(***************************************************************************)
(* The steps of the calls                                                  *)
(***************************************************************************)
ProvisionStep(step) ==
    \/ backend \in RBD    /\ step \in {"image", "save"}
    \/ backend \in CephFS /\ step \in {"share", "authorize", "user secret", "save"}
    \/ backend \in Block  /\ step \in {"create", "modify", "chap secret", "save"}
    \/ backend \in File   /\ step \in {"volume", "nodes", "endpoint", "undo", "annotate", "save"}
    \/ backend = "simple" /\ step \in {"bricks", "gluster", "simple service",
                                       "stop", "rm bricks", "rm service", "save"}
    \/ backend \in Restores /\ step \in {"restore", "save"}
    \/ backend = "restore-aws" /\ step \in {"tags", "untagged"}

DeleteStep(step) ==
    \/ backend \in RBD    /\ step \in {"status", "rm", "gone"}
    \/ backend = "cephfs" /\ step \in {"deauthorize", "purge", "user secret", "gone"}
    \/ backend = "cephfs-names" /\ step = "deauthorize"
    \/ backend \in Block  /\ step \in {"delete", "chap secret", "gone"}
    \/ backend \in File   /\ step \in {"delete", "service", "gone"}
    \/ backend = "simple" /\ step \in {"stop", "rm bricks", "rm service", "release", "gone"}
    \/ backend \in Restores /\ step \in {"remove", "gone"}
    \/ backend = "restore-cinder" /\ step = "cinder"

Steps == {None, "image", "save", "share", "authorize", "user secret", "create", "modify",
          "chap secret", "volume", "nodes", "endpoint", "undo", "annotate", "bricks", "gluster",
          "simple service", "stop", "rm bricks", "rm service", "restore", "tags", "untagged",
          "status", "rm", "deauthorize", "purge", "delete", "service", "release", "remove",
          "cinder", "gone"}

\* Two claims may have one volume of these; nothing that they make is removed.
Sharing == {"cephfs-names", "restore-glusterfs"}

\* What is made and removed for a volume
Things(id) == {Volume(id), Bricks(id), User(id), Secret(id)}
Services   == {Service(n) : n \in Names}

\* A call of Provision that is at a step has made what the steps before it make.
MadeAt(id, step, things) ==
    /\ step \in {"authorize", "user secret", "modify", "chap secret", "nodes", "endpoint",
                 "annotate", "simple service", "tags", "save"} => Volume(id) \in things
    /\ backend \in CephFS /\ step \in {"user secret", "save"} => User(id) \in things
    /\ backend \in CephFS \cup Block /\ step = "save" => Secret(id) \in things

\* A call of Delete that is at a step has removed what the steps before it
\* remove; whether the user of cephfs is gone it does not know.
GoneAt(id, step, things) ==
    backend \notin Forgetful =>
        /\ step \in {"chap secret", "service", "user secret", "gone"} => Volume(id) \notin things
        /\ backend \in CephFS \cup Block /\ step = "gone" => Secret(id) \notin things

-----------------------------------------------------------------------------
(***************************************************************************)
(* The inductive invariant, in parts.                                      *)
(***************************************************************************)
Calls == [op : {None, "Provision", "Delete"}, at : Steps, volume : Ids \cup {NoId},
          gid : GIDs \cup {NoGID}, endpoint : Names \cup {None}]

Typed == TypeOK /\ call \in [Claims -> Calls] /\ made \in Nat

\* What a call has, and what it made or removed so far
CallOK(c) ==
    /\ call[c].op = None => call[c] = NoCall
    /\ call[c].op /= None => call[c].volume \in Ids
    /\ call[c].op = "Provision" =>
         /\ ProvisionStep(call[c].at) /\ MadeAt(call[c].volume, call[c].at, stored)
         /\ backend \in File \cup {"simple"} => call[c].gid \in GIDs
         /\ backend \in File => options \in Claims
    /\ call[c].op = "Delete" =>
         /\ DeleteStep(call[c].at) /\ GoneAt(call[c].volume, call[c].at, stored)

\* Provision is for a claim without PV, Delete for the volume of its PV.
LifeOK(c) ==
    /\ claim[c] \in {"none", "pending"} => pv[c].phase = "none"
    /\ claim[c] = "bound" => pv[c].phase = "saved"
    /\ pv[c].phase = "none" => pv[c] = NoPV
    /\ call[c].op = "Provision" => pv[c].phase = "none" /\ claim[c] \in {"pending", "deleted"}
    /\ call[c].op = "Delete" =>
         pv[c].phase = "saved" /\ claim[c] = "deleted" /\ call[c].volume = pv[c].volume

\* The volume that the call or the PV of a claim is about, and how it is named
Holds(c) == {call[c].volume, pv[c].volume} \ {NoId}

OwnName(c) == backend \notin Sharing => Holds(c) \subseteq {OfPV(c)} \cup {<<"uuid", n>> : n \in 1..made}

\* Two claims have no volume in common.
Apart(c, d) == backend \notin Sharing => Holds(c) \cap Holds(d) = {}

Usable(c) == claim[c] = "bound" => Needed(c) \subseteq stored
Gone(c)   == backend \notin Forgetful /\ pv[c].phase = "removed" =>
                 backend /= "cephfs-names" /\ (Needed(c) \ {User(pv[c].volume)}) \cap stored = {}

ClaimOK(c) == CallOK(c) /\ LifeOK(c) /\ OwnName(c) /\ Usable(c) /\ Gone(c)

Inv == /\ Typed
       /\ \A c \in Claims : ClaimOK(c)
       /\ \A c, d \in Claims : c /= d => Apart(c, d)

-----------------------------------------------------------------------------
\* The least free GID is one of the range.
LEMMA NextGIDType == ASSUME ~ (GIDs \subseteq gids) PROVE NextGID \in GIDs
<1> DEFINE free == GIDs \ gids
           less == {ss \in Nat \X Nat : ss[1] < ss[2]}
<1>1. free \subseteq Nat /\ free /= {}
  BY ClaimsAssumption
<1>2. IsWellFoundedOn(less, Nat)
  BY NatLessThanWellFounded, Zenon DEF OpToRel
<1> HIDE DEF less
<1>3. PICK g \in free : \A h \in free : ~ (<<h, g>> \in less)
  BY <1>1, <1>2, WFMin, Zenon
<1>4. ASSUME NEW h \in free PROVE g <= h
  <2>1. h \in Nat /\ g \in Nat
    BY <1>1
  <2>2. h < g => <<h, g>> \in less
    BY <2>1 DEF less
  <2> QED
    BY <1>3, <2>1, <2>2
<1> QED
  BY <1>4 DEF NextGID

\* The names of two volumes are the names of different things.
LEMMA ThingsFacts ==
    /\ \A i, j : Volume(i) = Volume(j) \/ Bricks(i) = Bricks(j)
                   \/ User(i) = User(j) \/ Secret(i) = Secret(j) => i = j
    /\ \A i, j : /\ Volume(i) \notin {Bricks(j), User(j), Secret(j), Service(j)}
                 /\ User(i)   \notin {Bricks(j), Volume(j), Secret(j), Service(j)}
                 /\ Secret(i) \notin {Bricks(j), User(j), Volume(j), Service(j)}
    /\ \A i, j : i /= j => Things(i) \cap Things(j) = {}
    /\ \A i : Things(i) \cap Services = {}
BY DEF Volume, Bricks, User, Secret, Service, Things, Services

-----------------------------------------------------------------------------
(***************************************************************************)
(* A step within a call: the call goes on or ends, and only what has its   *)
(* volume's name, and Services, are made or removed.                       *)
(***************************************************************************)
Within(c, things) ==
    /\ things \subseteq stored \cup Things(call[c].volume) \cup Services
    /\ stored \subseteq things \cup Things(call[c].volume) \cup {Service(n) : n \in Names \cup {None}}
    /\ backend \in Sharing => stored \subseteq things \cup {Service(n) : n \in Names \cup {None}}

Frame == UNCHANGED <<backend, NameOf, claim, pv, made, options>> /\ gids' \subseteq gids

Moves(c) == call[c].op /= None /\ Frame /\ Within(c, stored')

GoesTo(c, step, endpoint) ==
    call' = [call EXCEPT ![c] = [@ EXCEPT !.at = step, !.endpoint = endpoint]]

\* The step fits what the call has done by then.
Fits(c, step, things) ==
    /\ call[c].op = "Provision" => ProvisionStep(step) /\ MadeAt(call[c].volume, step, things)
    /\ call[c].op = "Delete"    => DeleteStep(step) /\ GoneAt(call[c].volume, step, things)

LEMMA FrameNames ==
    ASSUME Frame
    PROVE  /\ Ids' = Ids /\ Names' = Names /\ Services' = Services
           /\ \A c \in Claims : OfPV(c)' = OfPV(c)
BY DEF Frame, Ids, Names, Services, OfPV, OfName, OfSnapshot

LEMMA MovesTyped ==
    ASSUME Typed, NEW c \in Claims, Moves(c), call[c].volume \in Ids, call' \in [Claims -> Calls]
    PROVE  Typed'
<1>0. TypeOK /\ call \in [Claims -> Calls] /\ made \in Nat
  BY DEF Typed
<1>1. Ids' = Ids /\ Names' = Names
  BY FrameNames DEF Moves
<1>2. Calls' = Calls
  BY <1>1 DEF Calls
<1> DEFINE All == {Volume(i) : i \in Ids} \cup {Bricks(i) : i \in Ids}
                          \cup {User(i) : i \in Ids} \cup {Secret(i) : i \in Ids}
                          \cup {Service(n) : n \in Names}
<1>3. Things(call[c].volume) \cup Services \subseteq All
  BY DEF Things, Services
<1>4. stored \subseteq All
  BY <1>0 DEF TypeOK, BaseTypeOK
<1>5. stored' \subseteq All
  BY <1>3, <1>4 DEF Moves, Within
<1>6. \A d \in Claims : /\ call'[d].op \in {None, "Provision", "Delete"}
                        /\ call'[d].volume \in Ids \cup {NoId}
  BY DEF Calls
<1>7. BaseTypeOK'
  BY <1>0, <1>1, <1>5, <1>6 DEF Moves, Frame, TypeOK, BaseTypeOK
<1> QED
  BY <1>0, <1>2, <1>7 DEF Moves, Frame, TypeOK, Typed

\* The calls and the PVs of the other claims are not touched.
LEMMA OthersKept ==
    ASSUME Inv, NEW c \in Claims, Moves(c), call[c].volume \in Ids,
           NEW d \in Claims, d /= c, call'[d] = call[d]
    PROVE  ClaimOK(d)'
<1>0. Typed /\ ClaimOK(d) /\ Apart(c, d) /\ Frame /\ Within(c, stored')
  BY DEF Inv, Moves
<1>1. Ids' = Ids /\ OfPV(d)' = OfPV(d) /\ OfPV(c)' = OfPV(c) /\ backend' = backend
  BY <1>0, FrameNames DEF Frame
<1>2. pv'[d] = pv[d] /\ claim'[d] = claim[d] /\ made' = made /\ options' = options
  BY <1>0 DEF Frame
<1>3. NoId \notin Ids
  BY DEF Ids, NoId, OfPV, OfName, OfSnapshot
<1>4. ASSUME NEW i \in {call[d].volume, pv[d].volume}, i \in Ids,
             NEW x \in {Volume(i), User(i), Secret(i)}
      PROVE  /\ x \in stored => x \in stored'
             /\ backend \notin Sharing /\ x \notin stored => x \notin stored'
  <2>1. x \in Things(i) /\ x \notin {Service(n) : n \in Names \cup {None}}
    BY DEF Things, Volume, User, Secret, Service
  <2>2. backend \notin Sharing => i /= call[c].volume
    BY <1>0, <1>3, <1>4 DEF Apart, Holds
  <2>3. backend \notin Sharing => x \notin Things(call[c].volume)
    BY <2>1, <2>2, ThingsFacts
  <2>4. x \notin Services
    BY <2>1 DEF Services
  <2> QED
    BY <1>0, <2>1, <2>3, <2>4 DEF Within
<1>5. CallOK(d)'
  <2>1. ASSUME call[d].op = "Provision" PROVE MadeAt(call[d].volume, call[d].at, stored')
    <3>1. call[d].volume \in Ids /\ MadeAt(call[d].volume, call[d].at, stored)
      BY <1>0, <2>1 DEF ClaimOK, CallOK, None
    <3>2. \A x \in {Volume(call[d].volume), User(call[d].volume), Secret(call[d].volume)} :
            x \in stored => x \in stored'
      BY <1>4, <3>1
    <3> QED
      BY <3>1, <3>2 DEF MadeAt
  <2>2. ASSUME call[d].op = "Delete" PROVE GoneAt(call[d].volume, call[d].at, stored')
    <3>1. CASE backend \in Sharing
      BY <1>0, <2>2, <3>1 DEF ClaimOK, CallOK, GoneAt, DeleteStep, Sharing, Forgetful,
                              RBD, CephFS, Block, File, Restores
    <3>2. CASE backend \notin Sharing
      <4>1. call[d].volume \in Ids /\ GoneAt(call[d].volume, call[d].at, stored)
        BY <1>0, <2>2 DEF ClaimOK, CallOK, None
      <4>2. \A x \in {Volume(call[d].volume), User(call[d].volume), Secret(call[d].volume)} :
              x \notin stored => x \notin stored'
        BY <1>4, <3>2, <4>1
      <4> QED
        BY <4>1, <4>2 DEF GoneAt
    <3> QED
      BY <3>1, <3>2
  <2> QED
    BY <1>0, <1>1, <1>2, <2>1, <2>2
    DEF ClaimOK, CallOK, MadeAt, GoneAt, ProvisionStep, DeleteStep
<1>6. LifeOK(d)' /\ OwnName(d)'
  BY <1>0, <1>1, <1>2 DEF ClaimOK, LifeOK, OwnName, Holds
<1>7. pv[d].phase /= "none" => pv[d].volume \in Ids
  BY <1>0 DEF Typed, TypeOK, BaseTypeOK
<1>8. Usable(d)'
  BY <1>0, <1>1, <1>2, <1>4, <1>7 DEF ClaimOK, LifeOK, Usable, Needed
<1>9. Gone(d)'
  BY <1>0, <1>1, <1>2, <1>4, <1>7 DEF ClaimOK, Gone, Needed, Forgetful, Sharing
<1> QED
  BY <1>5, <1>6, <1>8, <1>9 DEF ClaimOK

LEMMA MovesApart ==
    ASSUME Inv, NEW c \in Claims, Moves(c), call[c].volume \in Ids,
           call' \in [Claims -> Calls],
           \A d \in Claims \ {c} : call'[d] = call[d],
           call'[c].volume \in {call[c].volume, NoId},
           ClaimOK(c)'
    PROVE  Inv'
<1>1. Typed'
  BY MovesTyped DEF Inv
<1>2. \A d \in Claims : ClaimOK(d)'
  BY OthersKept
<1>3. ASSUME NEW d \in Claims PROVE Holds(d)' \subseteq Holds(d)
  BY DEF Holds, Moves, Frame
<1>4. ASSUME NEW d \in Claims, NEW e \in Claims, d /= e PROVE Apart(d, e)'
  BY <1>3, <1>4 DEF Inv, Apart, Moves, Frame
<1> QED
  BY <1>1, <1>2, <1>4 DEF Inv

\* A call that goes on from one step to another
LEMMA Goes ==
    ASSUME Inv, NEW c \in Claims, Moves(c), NEW step \in Steps, NEW endpoint \in Names \cup {None},
           GoesTo(c, step, endpoint), Fits(c, step, stored')
    PROVE  Inv'
<1>0. Typed /\ ClaimOK(c) /\ Frame
  BY DEF Inv, Moves
<1>1. call[c].volume \in Ids /\ call[c].op \in {"Provision", "Delete"}
  BY <1>0 DEF Moves, ClaimOK, CallOK, Typed, Calls, None
<1> DEFINE next == [call[c] EXCEPT !.at = step, !.endpoint = endpoint]
<1>2. /\ next \in Calls /\ next.op = call[c].op /\ next.volume = call[c].volume
      /\ next.gid = call[c].gid /\ next.at = step
  BY <1>0 DEF Typed, Calls
<1>3. call' = [call EXCEPT ![c] = next]
  BY <1>0 DEF GoesTo, Typed
<1> HIDE DEF next
<1>4. /\ call' \in [Claims -> Calls] /\ call'[c] = next
      /\ \A d \in Claims \ {c} : call'[d] = call[d]
  BY <1>0, <1>2, <1>3 DEF Typed
<1>5. Ids' = Ids /\ OfPV(c)' = OfPV(c)
  BY <1>0, FrameNames
<1>6. CallOK(c)'
  BY <1>0, <1>1, <1>2, <1>4, <1>5
  DEF ClaimOK, CallOK, Fits, Frame, MadeAt, GoneAt, ProvisionStep, DeleteStep, None
<1>7. LifeOK(c)' /\ OwnName(c)'
  BY <1>0, <1>2, <1>4, <1>5 DEF ClaimOK, LifeOK, OwnName, Holds, Frame
<1>8. Usable(c)' /\ Gone(c)'
  BY <1>0, <1>1 DEF ClaimOK, LifeOK, Usable, Gone, Frame
<1> QED
  BY <1>1, <1>2, <1>4, <1>6, <1>7, <1>8, MovesApart DEF ClaimOK

\* A call that ends
LEMMA Returns ==
    ASSUME Inv, NEW c \in Claims, Moves(c), Return(c)
    PROVE  Inv'
<1>0. Typed /\ ClaimOK(c) /\ Frame
  BY DEF Inv, Moves
<1>1. call[c].volume \in Ids /\ call[c].op \in {"Provision", "Delete"}
  BY <1>0 DEF Moves, ClaimOK, CallOK, Typed, Calls, None
<1>2. NoCall \in Calls /\ NoCall.op = None /\ NoCall.volume = NoId
  BY DEF Calls, NoCall, Steps, None
<1>3. /\ call' \in [Claims -> Calls] /\ call'[c] = NoCall
      /\ \A d \in Claims \ {c} : call'[d] = call[d]
  BY <1>0, <1>2 DEF Typed, Return
<1>4. CallOK(c)'
  BY <1>2, <1>3 DEF CallOK, None, NoCall
<1>5. LifeOK(c)' /\ OwnName(c)'
  BY <1>0, <1>2, <1>3, FrameNames DEF ClaimOK, LifeOK, OwnName, Holds, Frame, None
<1>6. Usable(c)' /\ Gone(c)'
  BY <1>0, <1>1 DEF ClaimOK, LifeOK, Usable, Gone, Frame
<1> QED
  BY <1>1, <1>2, <1>3, <1>4, <1>5, <1>6, MovesApart DEF ClaimOK

-----------------------------------------------------------------------------
(***************************************************************************)
(* The ways in which a step of a call ends                                 *)
(***************************************************************************)
LEMMA GoIs ==
    ASSUME Typed, NEW c \in Claims, NEW step
    PROVE  /\ call[c].endpoint \in Names \cup {None}
           /\ Go(c, step) => GoesTo(c, step, call[c].endpoint)
<1>1. call[c] \in Calls
  BY DEF Typed
<1>2. [call[c] EXCEPT !.at = step] = [call[c] EXCEPT !.at = step, !.endpoint = call[c].endpoint]
  BY <1>1 DEF Calls
<1> QED
  BY <1>1, <1>2 DEF Calls, Go, GoesTo, Typed

LEMMA StoredIsWithin == \A c \in Claims : Within(c, stored)
BY DEF Within

LEMMA OnlyCallFrame == OnlyCall => Frame
BY DEF OnlyCall, Frame

LEMMA Proceeds ==
    ASSUME Inv, NEW c \in Claims, call[c].op /= None, NEW step \in Steps,
           Proceed(c, step), Fits(c, step, stored)
    PROVE  Inv'
<1>1. Moves(c) /\ Fits(c, step, stored') /\ Go(c, step)
  BY StoredIsWithin, OnlyCallFrame DEF Proceed, Moves, Within, Fits
<1> QED
  BY <1>1, GoIs, Goes DEF Inv

LEMMA Fails ==
    ASSUME Inv, NEW c \in Claims, call[c].op /= None, Fail(c)
    PROVE  Inv'
<1>1. Moves(c) /\ Return(c)
  BY StoredIsWithin, OnlyCallFrame DEF Fail, Moves, Within
<1> QED
  BY <1>1, Returns

LEMMA Commands ==
    ASSUME Inv, NEW c \in Claims, call[c].op /= None, NEW step \in Steps, NEW things,
           Within(c, things), Fits(c, step, things), Command(c, things, step)
    PROVE  Inv'
<1>1. Frame /\ stored' \in {stored, things}
  BY OnlyCallFrame DEF Command, CommandOr
<1>2. Moves(c)
  BY <1>1, StoredIsWithin DEF Moves, Within
<1>3. CASE stored' = things /\ Go(c, step)
  BY <1>2, <1>3, GoIs, Goes DEF Inv
<1>4. CASE Return(c)
  BY <1>2, <1>4, Returns
<1> QED
  BY <1>3, <1>4 DEF Command, CommandOr

LEMMA CommandsOrGo ==
    ASSUME Inv, NEW c \in Claims, call[c].op /= None, NEW step \in Steps, NEW other \in Steps,
           NEW things, Within(c, things), Fits(c, step, things),
           Fits(c, other, stored), Fits(c, other, things),
           CommandOr(c, things, step, Go(c, other))
    PROVE  Inv'
<1>1. Frame /\ stored' \in {stored, things}
  BY OnlyCallFrame DEF CommandOr
<1>2. Moves(c)
  BY <1>1, StoredIsWithin DEF Moves, Within
<1>3. CASE stored' = things /\ Go(c, step)
  BY <1>2, <1>3, GoIs, Goes DEF Inv
<1>4. CASE Go(c, other)
  <2>1. Fits(c, other, stored')
    BY <1>1
  <2> QED
    BY <1>2, <1>4, <2>1, GoIs, Goes DEF Inv
<1> QED
  BY <1>3, <1>4 DEF CommandOr

LEMMA TriesAndReturns ==
    ASSUME Inv, NEW c \in Claims, call[c].op /= None, NEW things, Within(c, things),
           Tried(things), Return(c)
    PROVE  Inv'
<1>1. Moves(c)
  BY StoredIsWithin, OnlyCallFrame DEF Tried, Moves, Within
<1> QED
  BY <1>1, Returns

LEMMA TriesAndGoes ==
    ASSUME Inv, NEW c \in Claims, call[c].op /= None, NEW step \in Steps, NEW things,
           Within(c, things), Fits(c, step, stored), Fits(c, step, things),
           Tried(things), Go(c, step)
    PROVE  Inv'
<1>1. Moves(c)
  BY StoredIsWithin, OnlyCallFrame DEF Tried, Moves, Within
<1>2. Fits(c, step, stored')
  BY DEF Tried
<1> QED
  BY <1>1, <1>2, GoIs, Goes DEF Inv

\* A command that makes or removes one thing of the call's volume
LEMMA OneThing ==
    ASSUME NEW c \in Claims, NEW x \in Things(call[c].volume)
    PROVE  /\ Within(c, stored \cup {x})
           /\ backend \notin Sharing => Within(c, stored \ {x})
BY DEF Within

-----------------------------------------------------------------------------
(***************************************************************************)
(* The steps of ceph/rbd and ceph/cephfs                                   *)
(***************************************************************************)
LEMMA AtStep ==
    ASSUME Inv, NEW c \in Claims, NEW op \in {"Provision", "Delete"}, call[c].op = op
    PROVE  /\ call[c].op /= None /\ call[c].volume \in Ids
           /\ op = "Provision" => ProvisionStep(call[c].at) /\ MadeAt(call[c].volume, call[c].at, stored)
           /\ op = "Delete"    => DeleteStep(call[c].at) /\ GoneAt(call[c].volume, call[c].at, stored)
BY DEF Inv, ClaimOK, CallOK, None

LEMMA NamesDiffer ==
    \A i : Volume(i) /= User(i) /\ Volume(i) /= Secret(i) /\ User(i) /= Secret(i)
BY DEF Volume, User, Secret

LEMMA CephSteps ==
    ASSUME Inv, NEW c \in Claims,
           \/ CreateImage(c) \/ rbdStatus(c) \/ DeleteImage(c)
           \/ create_share(c) \/ authorize_ceph(c) \/ CreateUserSecret(c)
           \/ deauthorize(c) \/ delete_share(c) \/ DeleteUserSecret(c)
    PROVE  Inv'
<1> DEFINE id == call[c].volume
<1>0. /\ Within(c, stored)
      /\ \A x \in Things(id) : /\ Within(c, stored \cup {x})
                               /\ backend \notin Sharing => Within(c, stored \ {x})
      /\ Volume(id) \in Things(id) /\ User(id) \in Things(id) /\ Secret(id) \in Things(id)
  BY StoredIsWithin, OneThing DEF Things
<1>1. CASE CreateImage(c)
  <2>1. call[c].op = "Provision" /\ call[c].op /= None
    BY <1>1, AtStep DEF CreateImage, At, Removing, Restoring, None
  <2>2. Within(c, stored \cup {Volume(id)}) /\ Fits(c, "save", stored \cup {Volume(id)}) /\ "save" \in Steps
    BY <1>0, <1>1, <2>1, AtStep, NamesDiffer
    DEF CreateImage, At, Removing, Restoring, Fits, ProvisionStep, DeleteStep, MadeAt, GoneAt, Steps,
        RBD, CephFS, Block, File, Restores, Forgetful, Sharing
  <2> QED
    BY <1>1, <2>1, <2>2, Commands, Fails DEF CreateImage
<1>2. CASE rbdStatus(c)
  <2>1. call[c].op = "Delete" /\ call[c].op /= None
    BY <1>2, AtStep DEF rbdStatus, At, Removing, Restoring, None
  <2>2. Within(c, stored) /\ Fits(c, "rm", stored) /\ "rm" \in Steps
    BY <1>0, <1>2, <2>1, AtStep, NamesDiffer
    DEF rbdStatus, At, Removing, Restoring, Fits, ProvisionStep, DeleteStep, MadeAt, GoneAt, Steps,
        RBD, CephFS, Block, File, Restores, Forgetful, Sharing
  <2> QED
    BY <1>2, <2>1, <2>2, Commands, Fails DEF rbdStatus
<1>3. CASE DeleteImage(c)
  <2>1. call[c].op = "Delete" /\ call[c].op /= None
    BY <1>3, AtStep DEF DeleteImage, At, Removing, Restoring, None
  <2>2. Within(c, stored \ {Volume(id)}) /\ Fits(c, "gone", stored \ {Volume(id)}) /\ "gone" \in Steps
    BY <1>0, <1>3, <2>1, AtStep, NamesDiffer
    DEF DeleteImage, At, Removing, Restoring, Fits, ProvisionStep, DeleteStep, MadeAt, GoneAt, Steps,
        RBD, CephFS, Block, File, Restores, Forgetful, Sharing
  <2> QED
    BY <1>3, <2>1, <2>2, Commands DEF DeleteImage
<1>4. CASE create_share(c)
  <2>1. call[c].op = "Provision" /\ call[c].op /= None
    BY <1>4, AtStep DEF create_share, At, Removing, Restoring, None
  <2>2. Within(c, stored \cup {Volume(id)}) /\ Fits(c, "authorize", stored \cup {Volume(id)}) /\ "authorize" \in Steps
    BY <1>0, <1>4, <2>1, AtStep, NamesDiffer
    DEF create_share, At, Removing, Restoring, Fits, ProvisionStep, DeleteStep, MadeAt, GoneAt, Steps,
        RBD, CephFS, Block, File, Restores, Forgetful, Sharing
  <2> QED
    BY <1>4, <2>1, <2>2, Commands DEF create_share
<1>5. CASE authorize_ceph(c)
  <2>1. call[c].op = "Provision" /\ call[c].op /= None
    BY <1>5, AtStep DEF authorize_ceph, At, Removing, Restoring, None
  <2>2. Within(c, stored \cup {User(id)}) /\ Fits(c, "user secret", stored \cup {User(id)}) /\ "user secret" \in Steps
    BY <1>0, <1>5, <2>1, AtStep, NamesDiffer
    DEF authorize_ceph, At, Removing, Restoring, Fits, ProvisionStep, DeleteStep, MadeAt, GoneAt, Steps,
        RBD, CephFS, Block, File, Restores, Forgetful, Sharing
  <2> QED
    BY <1>5, <2>1, <2>2, Commands DEF authorize_ceph
<1>6. CASE CreateUserSecret(c)
  <2>1. call[c].op = "Provision" /\ call[c].op /= None
    BY <1>6, AtStep DEF CreateUserSecret, At, Removing, Restoring, None
  <2>2. Within(c, stored \cup {Secret(id)}) /\ Fits(c, "save", stored \cup {Secret(id)}) /\ "save" \in Steps
    BY <1>0, <1>6, <2>1, AtStep, NamesDiffer
    DEF CreateUserSecret, At, Removing, Restoring, Fits, ProvisionStep, DeleteStep, MadeAt, GoneAt, Steps,
        RBD, CephFS, Block, File, Restores, Forgetful, Sharing
  <2> QED
    BY <1>6, <2>1, <2>2, Commands DEF CreateUserSecret
<1>7. CASE deauthorize(c)
  <2>1. call[c].op = "Delete" /\ call[c].op /= None /\ call[c].at = "deauthorize"
    BY <1>7, AtStep DEF deauthorize, At, None
  <2>2. CASE backend = "cephfs-names"
    <3>1. deletedShare(c) \notin stored
      BY <2>2 DEF Inv, Typed, TypeOK, BaseTypeOK, deletedShare,
                  Volume, Bricks, User, Secret, Service
    <3> QED
      BY <1>7, <2>1, <3>1, Fails DEF deauthorize
  <2>3. CASE backend /= "cephfs-names"
    <3>1. Within(c, stored \ {User(id)}) /\ Fits(c, "purge", stored \ {User(id)}) /\ "purge" \in Steps
      BY <1>0, <1>7, <2>1, <2>3, AtStep, NamesDiffer
      DEF Fits, DeleteStep, GoneAt, Steps,
          RBD, CephFS, Block, File, Restores, Forgetful, Sharing
    <3>2. Fits(c, "purge", stored)
      BY <1>0, <1>7, <2>1, <2>3, AtStep, NamesDiffer
      DEF Fits, DeleteStep, GoneAt, Steps,
          RBD, CephFS, Block, File, Restores, Forgetful, Sharing
    <3>3. \/ Fail(c)
          \/ Command(c, stored \ {User(id)}, "purge")
          \/ Tried(stored \ {User(id)}) /\ Go(c, "purge")
      BY <1>7 DEF deauthorize, BestEffort
    <3> QED
      BY <2>1, <3>1, <3>2, <3>3, Commands, Fails, TriesAndGoes
  <2> QED
    BY <2>2, <2>3
<1>8. CASE delete_share(c)
  <2>1. call[c].op = "Delete" /\ call[c].op /= None /\ call[c].at = "purge"
    BY <1>8, AtStep DEF delete_share, At, None
  <2>2. Within(c, stored \ {Volume(id)}) /\ Fits(c, "user secret", stored \ {Volume(id)})
          /\ "user secret" \in Steps /\ backend /= "cephfs-names"
    BY <1>0, <2>1, AtStep, NamesDiffer
    DEF Fits, DeleteStep, GoneAt, Steps,
        RBD, CephFS, Block, File, Restores, Forgetful, Sharing
  <2>3. Command(c, stored \ {Volume(id)}, "user secret")
    BY <1>8, <2>2 DEF delete_share, deletedShare
  <2> QED
    BY <2>1, <2>2, <2>3, Commands
<1>9. CASE DeleteUserSecret(c)
  <2>1. call[c].op = "Delete" /\ call[c].op /= None
    BY <1>9, AtStep DEF DeleteUserSecret, At, Removing, Restoring, None
  <2>2. Within(c, stored \ {Secret(id)}) /\ Fits(c, "gone", stored \ {Secret(id)}) /\ "gone" \in Steps
    BY <1>0, <1>9, <2>1, AtStep, NamesDiffer
    DEF DeleteUserSecret, At, Removing, Restoring, Fits, ProvisionStep, DeleteStep, MadeAt, GoneAt, Steps,
        RBD, CephFS, Block, File, Restores, Forgetful, Sharing
  <2> QED
    BY <1>9, <2>1, <2>2, Commands, Fails DEF DeleteUserSecret
<1> QED
  BY <1>1, <1>2, <1>3, <1>4, <1>5, <1>6, <1>7, <1>8, <1>9

-----------------------------------------------------------------------------
(***************************************************************************)
(* The steps of gluster/block, gluster/file and gluster/glusterfs          *)
(***************************************************************************)
LEMMA BlockSteps ==
    ASSUME Inv, NEW c \in Claims,
           \/ heketiBlockVolCreate(c) \/ createSecretRef(c)
    PROVE  Inv'
<1> DEFINE id == call[c].volume
<1>0. /\ Within(c, stored)
      /\ \A x \in Things(id) : /\ Within(c, stored \cup {x})
                               /\ backend \notin Sharing => Within(c, stored \ {x})
      /\ \A n \in Names \cup {None} : Within(c, stored \ {Service(n)})
      /\ \A n \in Names : Within(c, stored \cup {Service(n)})
      /\ Volume(id) \in Things(id) /\ User(id) \in Things(id) /\ Secret(id) \in Things(id)
      /\ Bricks(id) \in Things(id)
  BY StoredIsWithin, OneThing DEF Things, Within, Services
<1>1. CASE heketiBlockVolCreate(c)
  <2>1. call[c].op = "Provision" /\ call[c].op /= None
    BY <1>1, AtStep DEF heketiBlockVolCreate, At, Removing, Restoring, None
  <2>2. /\ Within(c, stored \cup {Volume(id)})
        /\ Fits(c, "chap secret", stored \cup {Volume(id)})
        /\ "chap secret" \in Steps
    BY <1>0, <1>1, <2>1, AtStep, NamesDiffer
    DEF heketiBlockVolCreate, At, Removing, Restoring, Fits, ProvisionStep, DeleteStep, MadeAt, GoneAt, Steps,
        RBD, CephFS, Block, File, Restores, Forgetful, Sharing
  <2> QED
    BY <1>1, <2>1, <2>2, Commands
    DEF heketiBlockVolCreate
<1>2. CASE createSecretRef(c)
  <2>1. call[c].op = "Provision" /\ call[c].op /= None
    BY <1>2, AtStep DEF createSecretRef, At, Removing, Restoring, None
  <2>2. /\ Within(c, stored \cup {Secret(id)})
        /\ Fits(c, "save", stored \cup {Secret(id)})
        /\ "save" \in Steps
    BY <1>0, <1>2, <2>1, AtStep, NamesDiffer
    DEF createSecretRef, At, Removing, Restoring, Fits, ProvisionStep, DeleteStep, MadeAt, GoneAt, Steps,
        RBD, CephFS, Block, File, Restores, Forgetful, Sharing
  <2> QED
    BY <1>2, <2>1, <2>2, Commands
    DEF createSecretRef
<1> QED
  BY <1>1, <1>2

LEMMA BlockCommandSteps ==
    ASSUME Inv, NEW c \in Claims,
           \/ glusterBlockExecCreate(c) \/ DeleteBlockVolume(c) \/ DeleteChapSecret(c)
    PROVE  Inv'
<1> DEFINE id == call[c].volume
<1>0. /\ Within(c, stored)
      /\ \A x \in Things(id) : /\ Within(c, stored \cup {x})
                               /\ backend \notin Sharing => Within(c, stored \ {x})
      /\ \A n \in Names \cup {None} : Within(c, stored \ {Service(n)})
      /\ \A n \in Names : Within(c, stored \cup {Service(n)})
      /\ Volume(id) \in Things(id) /\ User(id) \in Things(id) /\ Secret(id) \in Things(id)
      /\ Bricks(id) \in Things(id)
  BY StoredIsWithin, OneThing DEF Things, Within, Services
<1>1. ASSUME backend = "block-cli", At(c, "Provision", "create"), Command(c, stored \cup {Volume(id)}, "modify")
      PROVE  Inv'
  <2>1. /\ call[c].op /= None /\ Fits(c, "modify", stored \cup {Volume(id)}) /\ "modify" \in Steps
    BY <1>1, NamesDiffer DEF At, None, Fits, ProvisionStep, MadeAt, Steps,
                             RBD, CephFS, Block, File, Restores, Forgetful, Sharing
  <2> QED
    BY <1>0, <1>1, <2>1, Commands
<1>2. ASSUME backend = "block-cli", At(c, "Provision", "modify"), Command(c, stored, "chap secret")
      PROVE  Inv'
  <2>1. /\ call[c].op /= None /\ Fits(c, "chap secret", stored) /\ "chap secret" \in Steps
    BY <1>2, AtStep DEF At, None, Fits, ProvisionStep, MadeAt, Steps,
                        RBD, CephFS, Block, File, Restores, Forgetful, Sharing
  <2> QED
    BY <1>0, <1>2, <2>1, Commands
<1>3. CASE glusterBlockExecCreate(c)
  BY <1>1, <1>2, <1>3 DEF glusterBlockExecCreate
<1>4. CASE DeleteBlockVolume(c)
  <2>1. call[c].op = "Delete" /\ call[c].op /= None /\ backend \in Block
    BY <1>4 DEF DeleteBlockVolume, At, None
  <2>2. /\ Within(c, stored \ {Volume(id)}) /\ Fits(c, "chap secret", stored \ {Volume(id)}) /\ "chap secret" \in Steps
        /\ Volume(id) \notin stored => Fits(c, "chap secret", stored)
    BY <1>0, <2>1 DEF Fits, DeleteStep, GoneAt, Steps,
                      RBD, CephFS, Block, File, Restores, Forgetful, Sharing
  <2> QED
    BY <1>4, <2>1, <2>2, Commands, Fails, Proceeds DEF DeleteBlockVolume
<1>5. CASE DeleteChapSecret(c)
  <2>1. call[c].op = "Delete" /\ call[c].op /= None /\ call[c].at = "chap secret" /\ backend \in Block
    BY <1>5, AtStep DEF DeleteChapSecret, At, None, DeleteStep
  <2>2. /\ Within(c, stored \ {Secret(id)}) /\ Fits(c, "gone", stored \ {Secret(id)}) /\ "gone" \in Steps
        /\ Secret(id) \notin stored => Fits(c, "gone", stored)
    BY <1>0, <2>1, AtStep, NamesDiffer DEF Fits, DeleteStep, GoneAt, Steps,
                                           RBD, CephFS, Block, File, Restores, Forgetful, Sharing
  <2> QED
    BY <1>5, <2>1, <2>2, Commands, Proceeds DEF DeleteChapSecret
<1> QED
  BY <1>3, <1>4, <1>5

\* A Service of the call's claim, or of the claim of p.options, is made, or the
\* call turns to its way back.
LEMMA ServiceMade ==
    ASSUME Inv, NEW c \in Claims, call[c].op = "Provision", NEW n \in Names,
           NEW step \in Steps, NEW back \in Steps,
           Fits(c, step, stored \cup {Service(n)}),
           Fits(c, back, stored), Fits(c, back, stored \cup {Service(n)}),
           OnlyCall,
           \/ /\ stored' = stored \cup {Service(n)}
              /\ call' = [call EXCEPT ![c].endpoint = n, ![c].at = step]
           \/ stored' \in {stored, stored \cup {Service(n)}} /\ Go(c, back)
    PROVE  Inv'
<1>1. Within(c, stored \cup {Service(n)})
  BY DEF Within, Services
<1>2. Moves(c)
  BY <1>1, StoredIsWithin, OnlyCallFrame, AtStep DEF Moves, Within
<1>3. CASE stored' = stored \cup {Service(n)} /\ call' = [call EXCEPT ![c].endpoint = n, ![c].at = step]
  <2>1. GoesTo(c, step, n)
    <3>1. call[c] \in Calls /\ call \in [Claims -> Calls]
      BY DEF Inv, Typed
    <3>2. [call[c] EXCEPT !.endpoint = n, !.at = step] = [call[c] EXCEPT !.at = step, !.endpoint = n]
      BY <3>1 DEF Calls
    <3> QED
      BY <1>3, <3>1, <3>2 DEF GoesTo
  <2> QED
    BY <1>2, <1>3, <2>1, Goes
<1>4. CASE stored' \in {stored, stored \cup {Service(n)}} /\ Go(c, back)
  <2>1. Fits(c, back, stored')
    BY <1>4
  <2> QED
    BY <1>2, <1>4, <2>1, GoIs, Goes DEF Inv
<1> QED
  BY <1>3, <1>4

LEMMA FileSteps ==
    ASSUME Inv, NEW c \in Claims,
           \/ CreateVolume(c) \/ createVolumeClone(c) \/ getClusterNodes(c)
           \/ UndoVolume(c) \/ DeleteVolume(c)
    PROVE  Inv'
<1> DEFINE id == call[c].volume
<1>0. /\ Within(c, stored)
      /\ \A x \in Things(id) : /\ Within(c, stored \cup {x})
                               /\ backend \notin Sharing => Within(c, stored \ {x})
      /\ \A n \in Names \cup {None} : Within(c, stored \ {Service(n)})
      /\ \A n \in Names : Within(c, stored \cup {Service(n)})
      /\ Volume(id) \in Things(id) /\ User(id) \in Things(id) /\ Secret(id) \in Things(id)
      /\ Bricks(id) \in Things(id)
  BY StoredIsWithin, OneThing DEF Things, Within, Services
<1>1. CASE CreateVolume(c)
  <2>1. call[c].op = "Provision" /\ call[c].op /= None
    BY <1>1, AtStep DEF CreateVolume, At, Removing, Restoring, None
  <2>2. /\ Within(c, stored \cup {Volume(id)})
        /\ Fits(c, "nodes", stored \cup {Volume(id)})
        /\ "nodes" \in Steps
    BY <1>0, <1>1, <2>1, AtStep, NamesDiffer
    DEF CreateVolume, At, Removing, Restoring, Fits, ProvisionStep, DeleteStep, MadeAt, GoneAt, Steps,
        RBD, CephFS, Block, File, Restores, Forgetful, Sharing
  <2> QED
    BY <1>1, <2>1, <2>2, Commands
    DEF CreateVolume
<1>2. CASE createVolumeClone(c)
  <2>1. call[c].op = "Provision" /\ call[c].op /= None
    BY <1>2, AtStep DEF createVolumeClone, At, Removing, Restoring, None
  <2>2. /\ Within(c, stored \cup {Volume(id)})
        /\ Fits(c, "nodes", stored \cup {Volume(id)})
        /\ "nodes" \in Steps
    BY <1>0, <1>2, <2>1, AtStep, NamesDiffer
    DEF createVolumeClone, At, Removing, Restoring, Fits, ProvisionStep, DeleteStep, MadeAt, GoneAt, Steps,
        RBD, CephFS, Block, File, Restores, Forgetful, Sharing
  <2> QED
    BY <1>2, <2>1, <2>2, Commands
    DEF createVolumeClone
<1>3. CASE getClusterNodes(c)
  <2>1. call[c].op = "Provision" /\ call[c].op /= None
    BY <1>3, AtStep DEF getClusterNodes, At, Removing, Restoring, None
  <2>2. /\ Within(c, stored)
        /\ Fits(c, "endpoint", stored)
        /\ "endpoint" \in Steps
    BY <1>0, <1>3, <2>1, AtStep, NamesDiffer
    DEF getClusterNodes, At, Removing, Restoring, Fits, ProvisionStep, DeleteStep, MadeAt, GoneAt, Steps,
        RBD, CephFS, Block, File, Restores, Forgetful, Sharing
  <2> QED
    BY <1>3, <2>1, <2>2, Commands
    DEF getClusterNodes
<1>4. CASE UndoVolume(c)
  <2>1. call[c].op = "Provision" /\ call[c].op /= None
    BY <1>4, AtStep DEF UndoVolume, At, Removing, Restoring, None
  <2>2. Within(c, stored \ {Volume(id)})
    BY <1>0, <1>4, <2>1, AtStep
    DEF UndoVolume, At, Removing, Restoring, ProvisionStep, DeleteStep, RBD, CephFS, Block, File, Restores, Forgetful, Sharing
  <2> QED
    BY <1>4, <2>1, <2>2, TriesAndReturns
    DEF UndoVolume
<1>5. CASE DeleteVolume(c)
  <2>1. call[c].op = "Delete" /\ call[c].op /= None
    BY <1>5, AtStep DEF DeleteVolume, At, Removing, Restoring, None
  <2>2. /\ Within(c, stored \ {Volume(id)})
        /\ Fits(c, "service", stored \ {Volume(id)})
        /\ "service" \in Steps
    BY <1>0, <1>5, <2>1, AtStep, NamesDiffer
    DEF DeleteVolume, At, Removing, Restoring, Fits, ProvisionStep, DeleteStep, MadeAt, GoneAt, Steps,
        RBD, CephFS, Block, File, Restores, Forgetful, Sharing
  <2> QED
    BY <1>5, <2>1, <2>2, Commands, Fails
    DEF DeleteVolume
<1> QED
  BY <1>1, <1>2, <1>3, <1>4, <1>5

LEMMA FileServiceSteps ==
    ASSUME Inv, NEW c \in Claims, createVolumeSource(c) \/ deleteEndpointService(c)
    PROVE  Inv'
<1> DEFINE id == call[c].volume
<1>0. /\ Within(c, stored)
      /\ \A x \in Things(id) : /\ Within(c, stored \cup {x})
                               /\ backend \notin Sharing => Within(c, stored \ {x})
      /\ \A n \in Names \cup {None} : Within(c, stored \ {Service(n)})
      /\ \A n \in Names : Within(c, stored \cup {Service(n)})
      /\ Volume(id) \in Things(id) /\ User(id) \in Things(id) /\ Secret(id) \in Things(id)
      /\ Bricks(id) \in Things(id)
  BY StoredIsWithin, OneThing DEF Things, Within, Services
<1>1. CASE createVolumeSource(c)
  <2>1. /\ call[c].op = "Provision" /\ call[c].at = "endpoint"
        /\ dynamicEndpoint(c) \in Names
    BY <1>1 DEF createVolumeSource, At, Inv, ClaimOK, CallOK, dynamicEndpoint, Names
  <2>2. /\ Fits(c, "annotate", stored \cup {Service(dynamicEndpoint(c))})
        /\ Fits(c, "undo", stored \cup {Service(dynamicEndpoint(c))})
        /\ Fits(c, "undo", stored)
        /\ "annotate" \in Steps /\ "undo" \in Steps
    BY <1>1, <2>1, AtStep
    DEF createVolumeSource, Fits, ProvisionStep, MadeAt, Steps,
        RBD, CephFS, Block, File, Restores, Forgetful, Sharing
  <2> QED
    BY <1>1, <2>1, <2>2, ServiceMade DEF createVolumeSource
<1>2. CASE deleteEndpointService(c)
  <2>1. /\ call[c].op = "Delete" /\ call[c].op /= None /\ call[c].at = "service"
        /\ call[c].endpoint \in Names \cup {None}
    BY <1>2 DEF deleteEndpointService, At, None, Inv, Typed, Calls
  <2>2. /\ Fits(c, "gone", stored \ {Service(call[c].endpoint)})
        /\ Fits(c, "gone", stored) /\ "gone" \in Steps
    BY <1>2, <2>1, AtStep
    DEF deleteEndpointService, Fits, DeleteStep, GoneAt, Steps,
        RBD, CephFS, Block, File, Restores, Forgetful, Sharing
  <2> QED
    BY <1>0, <1>2, <2>1, <2>2, TriesAndGoes DEF deleteEndpointService, BestEffort
<1> QED
  BY <1>1, <1>2

LEMMA SimpleSteps ==
    ASSUME Inv, NEW c \in Claims,
           \/ createBricks(c) \/ createGlusterVolume(c)
    PROVE  Inv'
<1> DEFINE id == call[c].volume
<1>0. /\ Within(c, stored)
      /\ \A x \in Things(id) : /\ Within(c, stored \cup {x})
                               /\ backend \notin Sharing => Within(c, stored \ {x})
      /\ \A n \in Names \cup {None} : Within(c, stored \ {Service(n)})
      /\ \A n \in Names : Within(c, stored \cup {Service(n)})
      /\ Volume(id) \in Things(id) /\ User(id) \in Things(id) /\ Secret(id) \in Things(id)
      /\ Bricks(id) \in Things(id)
  BY StoredIsWithin, OneThing DEF Things, Within, Services
<1>1. CASE createBricks(c)
  <2>1. call[c].op = "Provision" /\ call[c].op /= None
    BY <1>1, AtStep DEF createBricks, At, Removing, Restoring, None
  <2>2. /\ Within(c, stored \cup {Bricks(id)})
        /\ Fits(c, "gluster", stored \cup {Bricks(id)})
        /\ Fits(c, "stop", stored)
        /\ Fits(c, "stop", stored \cup {Bricks(id)})
        /\ "gluster" \in Steps /\ "stop" \in Steps
    BY <1>0, <1>1, <2>1, AtStep, NamesDiffer
    DEF createBricks, At, Removing, Restoring, Fits, ProvisionStep, DeleteStep, MadeAt, GoneAt, Steps,
        RBD, CephFS, Block, File, Restores, Forgetful, Sharing
  <2> QED
    BY <1>1, <2>1, <2>2, CommandsOrGo
    DEF createBricks
<1>2. CASE createGlusterVolume(c)
  <2>1. call[c].op = "Provision" /\ call[c].op /= None
    BY <1>2, AtStep DEF createGlusterVolume, At, Removing, Restoring, None
  <2>2. /\ Within(c, stored \cup {Volume(id)})
        /\ Fits(c, "simple service", stored \cup {Volume(id)})
        /\ Fits(c, "stop", stored)
        /\ Fits(c, "stop", stored \cup {Volume(id)})
        /\ "simple service" \in Steps /\ "stop" \in Steps
    BY <1>0, <1>2, <2>1, AtStep, NamesDiffer
    DEF createGlusterVolume, At, Removing, Restoring, Fits, ProvisionStep, DeleteStep, MadeAt, GoneAt, Steps,
        RBD, CephFS, Block, File, Restores, Forgetful, Sharing
  <2>3. /\ Within(c, stored)
        /\ Fits(c, "stop", stored)
        /\ "stop" \in Steps
    BY <1>0, <1>2, <2>1, AtStep, NamesDiffer
    DEF createGlusterVolume, At, Removing, Restoring, Fits, ProvisionStep, DeleteStep, MadeAt, GoneAt, Steps,
        RBD, CephFS, Block, File, Restores, Forgetful, Sharing
  <2> QED
    BY <1>2, <2>1, <2>2, <2>3, CommandsOrGo, Proceeds
    DEF createGlusterVolume
<1> QED
  BY <1>1, <1>2

LEMMA SimpleServiceSteps ==
    ASSUME Inv, NEW c \in Claims,
           createEndpointService(c) \/ deleteGlusterVolume(c) \/ deleteBricks(c) \/ deleteSimpleService(c)
    PROVE  Inv'
<1> DEFINE id == call[c].volume
<1>0. /\ Within(c, stored)
      /\ \A x \in Things(id) : /\ Within(c, stored \cup {x})
                               /\ backend \notin Sharing => Within(c, stored \ {x})
      /\ \A n \in Names \cup {None} : Within(c, stored \ {Service(n)})
      /\ \A n \in Names : Within(c, stored \cup {Service(n)})
      /\ Volume(id) \in Things(id) /\ User(id) \in Things(id) /\ Secret(id) \in Things(id)
      /\ Bricks(id) \in Things(id)
  BY StoredIsWithin, OneThing DEF Things, Within, Services
<1>1. NameOf[c] \in Names
  BY DEF Names
<1>2. /\ call[c].op \in {None, "Provision", "Delete"}
      /\ call[c].op = None => call[c].at = None
  BY DEF Inv, Typed, Calls, ClaimOK, CallOK, NoCall
<1>3. CASE createEndpointService(c)
  <2>1. call[c].op = "Provision" /\ call[c].at = "simple service"
    BY <1>3 DEF createEndpointService, At
  <2>2. /\ Fits(c, "save", stored \cup {Service(NameOf[c])})
        /\ Fits(c, "stop", stored \cup {Service(NameOf[c])})
        /\ Fits(c, "stop", stored)
        /\ "save" \in Steps /\ "stop" \in Steps
    BY <2>1, AtStep
    DEF Fits, ProvisionStep, MadeAt, Steps, RBD, CephFS, Block, File, Restores, Forgetful, Sharing
  <2> QED
    BY <1>1, <1>3, <2>1, <2>2, ServiceMade DEF createEndpointService
<1>4. CASE deleteGlusterVolume(c)
  <2>1. /\ call[c].op \in {"Provision", "Delete"} /\ call[c].op /= None /\ call[c].at = "stop"
        /\ backend = "simple"
    BY <1>2, <1>4, AtStep DEF deleteGlusterVolume, None, ProvisionStep, DeleteStep
  <2>2. /\ Within(c, stored \ {Volume(id)})
        /\ Fits(c, "rm bricks", stored \ {Volume(id)}) /\ Fits(c, "rm bricks", stored) /\ "rm bricks" \in Steps
    BY <1>0, <2>1
    DEF Fits, ProvisionStep, DeleteStep, MadeAt, GoneAt, Steps, RBD, CephFS, Block, File, Restores, Forgetful, Sharing
  <2> QED
    BY <1>4, <2>1, <2>2, TriesAndGoes DEF deleteGlusterVolume, BestEffort
<1>5. CASE deleteBricks(c)
  <2>1. /\ call[c].op \in {"Provision", "Delete"} /\ call[c].op /= None /\ call[c].at = "rm bricks"
        /\ backend = "simple"
    BY <1>2, <1>5, AtStep DEF deleteBricks, None, ProvisionStep, DeleteStep
  <2>2. /\ Within(c, stored \ {Bricks(id)})
        /\ Fits(c, "rm service", stored \ {Bricks(id)}) /\ Fits(c, "rm service", stored) /\ "rm service" \in Steps
    BY <1>0, <2>1
    DEF Fits, ProvisionStep, DeleteStep, MadeAt, GoneAt, Steps, RBD, CephFS, Block, File, Restores, Forgetful, Sharing
  <2> QED
    BY <1>5, <2>1, <2>2, TriesAndGoes DEF deleteBricks, BestEffort
<1>6. CASE deleteSimpleService(c)
  <2>1. /\ call[c].op \in {"Provision", "Delete"} /\ call[c].op /= None /\ call[c].at = "rm service"
        /\ backend = "simple"
    BY <1>2, <1>6, AtStep DEF deleteSimpleService, None, ProvisionStep, DeleteStep
  <2>2. Within(c, stored \ {Service(NameOf[c])})
    BY <1>0, <1>1
  <2>3. call[c].op = "Delete" =>
            /\ Fits(c, "release", stored \ {Service(NameOf[c])})
            /\ Fits(c, "release", stored) /\ "release" \in Steps
    BY <2>1
    DEF Fits, ProvisionStep, DeleteStep, MadeAt, GoneAt, Steps, RBD, CephFS, Block, File, Restores, Forgetful, Sharing
  <2> QED
    BY <1>6, <2>1, <2>2, <2>3, TriesAndGoes, TriesAndReturns DEF deleteSimpleService
<1> QED
  BY <1>3, <1>4, <1>5, <1>6

\* Release leaves the GID free, or taken if its error is logged.
LEMMA ReleaseStep ==
    ASSUME Inv, NEW c \in Claims, Release(c)
    PROVE  Inv'
<1>1. /\ call[c].op = "Delete" /\ call[c].op /= None /\ call[c].at = "release"
      /\ backend = "simple"
  BY AtStep DEF Release, At, None, DeleteStep
<1>2. Fits(c, "gone", stored) /\ "gone" \in Steps
  BY <1>1 DEF Fits, DeleteStep, GoneAt, Steps, RBD, CephFS, Block, File, Restores, Forgetful, Sharing
<1>3. Moves(c) /\ Go(c, "gone") /\ Fits(c, "gone", stored')
  BY <1>1, <1>2, StoredIsWithin DEF Release, Moves, Frame, Within, Fits
<1> QED
  BY <1>2, <1>3, GoIs, Goes DEF Inv

-----------------------------------------------------------------------------
(***************************************************************************)
(* The steps of snapshot/pkg/volume                                        *)
(***************************************************************************)
LEMMA RestoringSteps ==
    ASSUME Inv, NEW c \in Claims,
           \/ HostPathRestore(c) \/ GlusterRestore(c) \/ AWSRestore(c)
           \/ CinderRestore(c)
    PROVE  Inv'
<1> DEFINE id == call[c].volume
<1>0. /\ Within(c, stored)
      /\ \A x \in Things(id) : /\ Within(c, stored \cup {x})
                               /\ backend \notin Sharing => Within(c, stored \ {x})
      /\ \A n \in Names \cup {None} : Within(c, stored \ {Service(n)})
      /\ \A n \in Names : Within(c, stored \cup {Service(n)})
      /\ Volume(id) \in Things(id) /\ User(id) \in Things(id) /\ Secret(id) \in Things(id)
      /\ Bricks(id) \in Things(id)
  BY StoredIsWithin, OneThing DEF Things, Within, Services
<1>1. CASE HostPathRestore(c)
  <2>1. call[c].op = "Provision" /\ call[c].op /= None
    BY <1>1, AtStep DEF HostPathRestore, At, Removing, Restoring, None
  <2>2. /\ Within(c, stored \cup {Volume(id)})
        /\ Fits(c, "save", stored \cup {Volume(id)})
        /\ "save" \in Steps
    BY <1>0, <1>1, <2>1, AtStep, NamesDiffer
    DEF HostPathRestore, At, Removing, Restoring, Fits, ProvisionStep, DeleteStep, MadeAt, GoneAt, Steps,
        RBD, CephFS, Block, File, Restores, Forgetful, Sharing
  <2> QED
    BY <1>1, <2>1, <2>2, Commands
    DEF HostPathRestore, Made
<1>2. CASE GlusterRestore(c)
  <2>1. call[c].op = "Provision" /\ call[c].op /= None
    BY <1>2, AtStep DEF GlusterRestore, At, Removing, Restoring, None
  <2>2. /\ Within(c, stored \cup {Volume(id)})
        /\ Fits(c, "save", stored \cup {Volume(id)})
        /\ "save" \in Steps
    BY <1>0, <1>2, <2>1, AtStep, NamesDiffer
    DEF GlusterRestore, At, Removing, Restoring, Fits, ProvisionStep, DeleteStep, MadeAt, GoneAt, Steps,
        RBD, CephFS, Block, File, Restores, Forgetful, Sharing
  <2> QED
    BY <1>2, <2>1, <2>2, Commands, Fails
    DEF GlusterRestore, Made
<1>3. CASE AWSRestore(c)
  <2>1. call[c].op = "Provision" /\ call[c].op /= None
    BY <1>3, AtStep DEF AWSRestore, At, Removing, Restoring, None
  <2>2. /\ Within(c, stored \cup {Volume(id)})
        /\ Fits(c, "tags", stored \cup {Volume(id)})
        /\ "tags" \in Steps
    BY <1>0, <1>3, <2>1, AtStep, NamesDiffer
    DEF AWSRestore, At, Removing, Restoring, Fits, ProvisionStep, DeleteStep, MadeAt, GoneAt, Steps,
        RBD, CephFS, Block, File, Restores, Forgetful, Sharing
  <2> QED
    BY <1>3, <2>1, <2>2, Commands
    DEF AWSRestore, Made
<1>4. CASE CinderRestore(c)
  <2>1. call[c].op = "Provision" /\ call[c].op /= None
    BY <1>4, AtStep DEF CinderRestore, At, Removing, Restoring, None
  <2>2. /\ Within(c, stored \cup {Volume(id)})
        /\ Fits(c, "save", stored \cup {Volume(id)})
        /\ "save" \in Steps
    BY <1>0, <1>4, <2>1, AtStep, NamesDiffer
    DEF CinderRestore, At, Removing, Restoring, Fits, ProvisionStep, DeleteStep, MadeAt, GoneAt, Steps,
        RBD, CephFS, Block, File, Restores, Forgetful, Sharing
  <2> QED
    BY <1>4, <2>1, <2>2, Commands
    DEF CinderRestore, Made
<1> QED
  BY <1>1, <1>2, <1>3, <1>4

LEMMA RemovingSteps ==
    ASSUME Inv, NEW c \in Claims,
           \/ HostPathVolumeDelete(c) \/ GlusterVolumeDelete(c) \/ AWSVolumeDelete(c)
           \/ GCEVolumeDelete(c)
    PROVE  Inv'
<1> DEFINE id == call[c].volume
<1>0. /\ Within(c, stored)
      /\ \A x \in Things(id) : /\ Within(c, stored \cup {x})
                               /\ backend \notin Sharing => Within(c, stored \ {x})
      /\ \A n \in Names \cup {None} : Within(c, stored \ {Service(n)})
      /\ \A n \in Names : Within(c, stored \cup {Service(n)})
      /\ Volume(id) \in Things(id) /\ User(id) \in Things(id) /\ Secret(id) \in Things(id)
      /\ Bricks(id) \in Things(id)
  BY StoredIsWithin, OneThing DEF Things, Within, Services
<1>1. CASE HostPathVolumeDelete(c)
  <2>1. call[c].op = "Delete" /\ call[c].op /= None
    BY <1>1, AtStep DEF HostPathVolumeDelete, At, Removing, Restoring, None
  <2>2. /\ Within(c, stored \ {Volume(id)})
        /\ Fits(c, "gone", stored \ {Volume(id)})
        /\ "gone" \in Steps
    BY <1>0, <1>1, <2>1, AtStep, NamesDiffer
    DEF HostPathVolumeDelete, At, Removing, Restoring, Fits, ProvisionStep, DeleteStep, MadeAt, GoneAt, Steps,
        RBD, CephFS, Block, File, Restores, Forgetful, Sharing
  <2> QED
    BY <1>1, <2>1, <2>2, Commands
    DEF HostPathVolumeDelete, Removed
<1>2. CASE GlusterVolumeDelete(c)
  <2>1. call[c].op = "Delete" /\ call[c].op /= None
    BY <1>2, AtStep DEF GlusterVolumeDelete, At, Removing, Restoring, None
  <2>2. /\ Within(c, stored)
        /\ Fits(c, "gone", stored)
        /\ "gone" \in Steps
    BY <1>0, <1>2, <2>1, AtStep, NamesDiffer
    DEF GlusterVolumeDelete, At, Removing, Restoring, Fits, ProvisionStep, DeleteStep, MadeAt, GoneAt, Steps,
        RBD, CephFS, Block, File, Restores, Forgetful, Sharing
  <2> QED
    BY <1>2, <2>1, <2>2, Proceeds
    DEF GlusterVolumeDelete
<1>3. CASE AWSVolumeDelete(c)
  <2>1. call[c].op = "Delete" /\ call[c].op /= None
    BY <1>3, AtStep DEF AWSVolumeDelete, At, Removing, Restoring, None
  <2>2. /\ Within(c, stored \ {Volume(id)})
        /\ Fits(c, "gone", stored \ {Volume(id)})
        /\ "gone" \in Steps
    BY <1>0, <1>3, <2>1, AtStep, NamesDiffer
    DEF AWSVolumeDelete, At, Removing, Restoring, Fits, ProvisionStep, DeleteStep, MadeAt, GoneAt, Steps,
        RBD, CephFS, Block, File, Restores, Forgetful, Sharing
  <2> QED
    BY <1>3, <2>1, <2>2, Commands
    DEF AWSVolumeDelete, Removed
<1>4. CASE GCEVolumeDelete(c)
  <2>1. call[c].op = "Delete" /\ call[c].op /= None
    BY <1>4, AtStep DEF GCEVolumeDelete, At, Removing, Restoring, None
  <2>2. /\ Within(c, stored \ {Volume(id)})
        /\ Fits(c, "gone", stored \ {Volume(id)})
        /\ "gone" \in Steps
    BY <1>0, <1>4, <2>1, AtStep, NamesDiffer
    DEF GCEVolumeDelete, At, Removing, Restoring, Fits, ProvisionStep, DeleteStep, MadeAt, GoneAt, Steps,
        RBD, CephFS, Block, File, Restores, Forgetful, Sharing
  <2> QED
    BY <1>4, <2>1, <2>2, Commands
    DEF GCEVolumeDelete, Removed
<1> QED
  BY <1>1, <1>2, <1>3, <1>4

LEMMA OtherRestoreSteps ==
    ASSUME Inv, NEW c \in Claims, TagDisk(c) \/ CreateDiskFromSnapshot(c) \/ CinderVolumeDelete(c)
    PROVE  Inv'
<1> DEFINE id == call[c].volume
<1>0. /\ Within(c, stored)
      /\ \A x \in Things(id) : /\ Within(c, stored \cup {x})
                               /\ backend \notin Sharing => Within(c, stored \ {x})
      /\ \A n \in Names \cup {None} : Within(c, stored \ {Service(n)})
      /\ \A n \in Names : Within(c, stored \cup {Service(n)})
      /\ Volume(id) \in Things(id) /\ User(id) \in Things(id) /\ Secret(id) \in Things(id)
      /\ Bricks(id) \in Things(id)
  BY StoredIsWithin, OneThing DEF Things, Within, Services
<1>1. ASSUME At(c, "Provision", "tags"), CommandOr(c, stored, "save", Go(c, "untagged"))
      PROVE  Inv'
  <2>1. call[c].op = "Provision" /\ call[c].op /= None
    BY <1>1 DEF At, Removing, Restoring, None
  <2>2. /\ Within(c, stored)
        /\ Fits(c, "save", stored) /\ Fits(c, "untagged", stored)
        /\ "save" \in Steps /\ "untagged" \in Steps
    BY <1>0, <1>1, <2>1, AtStep
    DEF At, Removing, Restoring, Fits, ProvisionStep, DeleteStep, MadeAt, GoneAt, Steps,
        RBD, CephFS, Block, File, Restores, Forgetful, Sharing
  <2> QED
    BY <1>1, <2>1, <2>2, CommandsOrGo
<1>2. ASSUME At(c, "Provision", "untagged"), Tried(Removed(c)), Return(c)
      PROVE  Inv'
  <2>1. call[c].op = "Provision" /\ call[c].op /= None
    BY <1>2 DEF At, Removing, Restoring, None
  <2>2. /\ Within(c, stored \ {Volume(id)})
    BY <1>0, <1>2, <2>1, AtStep
    DEF At, Removing, Restoring, Fits, ProvisionStep, DeleteStep, MadeAt, GoneAt, Steps,
        RBD, CephFS, Block, File, Restores, Forgetful, Sharing
  <2> QED
    BY <1>2, <2>1, <2>2, TriesAndReturns DEF Removed
<1>3. ASSUME Restoring(c, "restore-gce"), Volume(id) \in stored, Proceed(c, "save")
      PROVE  Inv'
  <2>1. call[c].op = "Provision" /\ call[c].op /= None
    BY <1>3 DEF At, Removing, Restoring, None
  <2>2. /\ Fits(c, "save", stored) /\ "save" \in Steps
    BY <1>0, <1>3, <2>1, AtStep
    DEF At, Removing, Restoring, Fits, ProvisionStep, DeleteStep, MadeAt, GoneAt, Steps,
        RBD, CephFS, Block, File, Restores, Forgetful, Sharing
  <2> QED
    BY <1>3, <2>1, <2>2, Proceeds
<1>4. ASSUME Restoring(c, "restore-gce"), Command(c, Made(c), "save")
      PROVE  Inv'
  <2>1. call[c].op = "Provision" /\ call[c].op /= None
    BY <1>4 DEF At, Removing, Restoring, None
  <2>2. /\ Within(c, stored \cup {Volume(id)})
        /\ Fits(c, "save", stored \cup {Volume(id)}) /\ "save" \in Steps
    BY <1>0, <1>4, <2>1, AtStep
    DEF At, Removing, Restoring, Fits, ProvisionStep, DeleteStep, MadeAt, GoneAt, Steps,
        RBD, CephFS, Block, File, Restores, Forgetful, Sharing
  <2> QED
    BY <1>4, <2>1, <2>2, Commands DEF Made
<1>5. ASSUME Removing(c, "restore-cinder"), Fail(c) \/ Command(c, stored, "cinder")
      PROVE  Inv'
  <2>1. call[c].op = "Delete" /\ call[c].op /= None
    BY <1>5 DEF At, Removing, Restoring, None
  <2>2. /\ Within(c, stored)
        /\ Fits(c, "cinder", stored) /\ "cinder" \in Steps
    BY <1>0, <1>5, <2>1, AtStep
    DEF At, Removing, Restoring, Fits, ProvisionStep, DeleteStep, MadeAt, GoneAt, Steps,
        RBD, CephFS, Block, File, Restores, Forgetful, Sharing
  <2> QED
    BY <1>5, <2>1, <2>2, Commands, Fails
<1>6. ASSUME At(c, "Delete", "cinder"), Tried(Removed(c)), Go(c, "gone")
      PROVE  Inv'
  <2>1. call[c].op = "Delete" /\ call[c].op /= None
    BY <1>6 DEF At, Removing, Restoring, None
  <2>2. /\ Within(c, stored \ {Volume(id)})
        /\ Fits(c, "gone", stored \ {Volume(id)}) /\ Fits(c, "gone", stored) /\ "gone" \in Steps
    BY <1>0, <1>6, <2>1, AtStep
    DEF At, Removing, Restoring, Fits, ProvisionStep, DeleteStep, MadeAt, GoneAt, Steps,
        RBD, CephFS, Block, File, Restores, Forgetful, Sharing
  <2> QED
    BY <1>6, <2>1, <2>2, TriesAndGoes DEF Removed
<1> QED
  BY <1>1, <1>2, <1>3, <1>4, <1>5, <1>6
  DEF TagDisk, CreateDiskFromSnapshot, CinderVolumeDelete, BestEffort

-----------------------------------------------------------------------------
(***************************************************************************)
(* Users, the library, restarts                                            *)
(***************************************************************************)
\* A step that leaves the calls and what is stored: claims and PVs change.
LEMMA ClaimSteps ==
    ASSUME Inv, NEW c \in Claims, CreateClaim(c) \/ DeleteClaim(c)
    PROVE  Inv'
<1>0. /\ OnlyClaims /\ UNCHANGED pv /\ Typed /\ ClaimOK(c)
      /\ \E life \in {"pending", "deleted"} :
            /\ claim' = [claim EXCEPT ![c] = life]
            /\ life = "pending" => claim[c] = "none"
            /\ life = "deleted" => claim[c] \in {"pending", "bound"}
  BY DEF CreateClaim, DeleteClaim, Inv
<1>1. Ids' = Ids /\ Names' = Names /\ Calls' = Calls /\ \A d \in Claims : OfPV(d)' = OfPV(d)
  BY <1>0 DEF OnlyClaims, Ids, Names, Calls, OfPV, OfName, OfSnapshot
<1>2. claim \in [Claims -> {"none", "pending", "bound", "deleted"}]
  BY <1>0 DEF Typed, TypeOK, BaseTypeOK
<1>3. /\ claim' \in [Claims -> {"none", "pending", "bound", "deleted"}]
      /\ claim'[c] \in {"pending", "deleted"}
      /\ claim'[c] = "pending" => claim[c] = "none"
      /\ claim'[c] = "deleted" => claim[c] \in {"pending", "bound"}
      /\ \A d \in Claims \ {c} : claim'[d] = claim[d]
  BY <1>0, <1>2
<1>4. Typed'
  BY <1>0, <1>1, <1>3 DEF Typed, TypeOK, BaseTypeOK, OnlyClaims
<1>5. ASSUME NEW d \in Claims PROVE ClaimOK(d)'
  <2>0. ClaimOK(d)
    BY DEF Inv
  <2>1. CallOK(d)'
    BY <1>0, <1>1, <2>0
    DEF ClaimOK, CallOK, OnlyClaims, ProvisionStep, DeleteStep, MadeAt, GoneAt
  <2>2. LifeOK(d)'
    BY <1>0, <1>2, <1>3, <2>0 DEF ClaimOK, LifeOK, OnlyClaims
  <2>3. OwnName(d)' /\ Usable(d)' /\ Gone(d)'
    BY <1>0, <1>1, <1>3, <2>0
    DEF ClaimOK, OwnName, Holds, Usable, Gone, Needed, OnlyClaims
  <2> QED
    BY <2>1, <2>2, <2>3 DEF ClaimOK
<1>6. \A d, e \in Claims : d /= e => Apart(d, e)'
  BY <1>0 DEF Inv, Apart, Holds, OnlyClaims
<1> QED
  BY <1>4, <1>5, <1>6 DEF Inv

\* The calls are lost: the volumes of those of Provision have no claim any more.
LEMMA CrashStep ==
    ASSUME Inv, Crash
    PROVE  Inv'
<1>0. Typed /\ UNCHANGED <<backend, NameOf, claim, pv, stored, made>>
  BY DEF Crash, Inv
<1>1. Ids' = Ids /\ Names' = Names /\ Calls' = Calls /\ \A d \in Claims : OfPV(d)' = OfPV(d)
  BY <1>0 DEF Ids, Names, Calls, OfPV, OfName, OfSnapshot
<1>2. NoCall \in Calls /\ NoCall.op = None /\ NoCall.volume = NoId
  BY DEF Calls, NoCall, Steps, None
<1>3. /\ call' \in [Claims -> Calls]
      /\ \A d \in Claims : call'[d] = NoCall
  BY <1>2 DEF Crash
<1>4. Typed'
  <2>1. gids' \subseteq GIDs /\ options' \in Claims \cup {None}
    BY DEF Crash
  <2>2. \A d \in Claims : /\ call'[d].op \in {None, "Provision", "Delete"}
                          /\ call'[d].volume \in Ids \cup {NoId}
    BY <1>2, <1>3
  <2> QED
    BY <1>0, <1>1, <1>3, <2>1, <2>2 DEF Typed, TypeOK, BaseTypeOK
<1>5. ASSUME NEW d \in Claims PROVE ClaimOK(d)' /\ Holds(d)' \subseteq Holds(d)
  <2>0. ClaimOK(d)
    BY DEF Inv
  <2>1. CallOK(d)'
    BY <1>2, <1>3 DEF CallOK, None, NoCall
  <2>2. LifeOK(d)'
    BY <1>0, <1>2, <1>3, <2>0 DEF ClaimOK, LifeOK, None
  <2>3. Holds(d)' \subseteq Holds(d)
    BY <1>0, <1>2, <1>3 DEF Holds
  <2>4. OwnName(d)' /\ Usable(d)' /\ Gone(d)'
    BY <1>0, <1>1, <2>0, <2>3 DEF ClaimOK, OwnName, Usable, Gone, Needed
  <2> QED
    BY <2>1, <2>2, <2>3, <2>4 DEF ClaimOK
<1>6. ASSUME NEW d \in Claims, NEW e \in Claims, d /= e PROVE Apart(d, e)'
  BY <1>0, <1>5, <1>6 DEF Inv, Apart
<1> QED
  BY <1>4, <1>5, <1>6 DEF Inv

LEMMA AnnotateStep ==
    ASSUME Inv, NEW c \in Claims, annotatePVC(c)
    PROVE  Inv'
<1>1. /\ call[c].op = "Provision" /\ call[c].op /= None /\ call[c].at = "annotate"
      /\ backend \in File
  BY DEF annotatePVC, At, None
<1>2. Fits(c, "save", stored) /\ "save" \in Steps
  BY <1>1, AtStep DEF Fits, ProvisionStep, MadeAt, Steps,
                      RBD, CephFS, Block, File, Restores, Forgetful, Sharing
<1>3. CASE Crash
  BY <1>3, CrashStep
<1>4. CASE Proceed(c, "save")
  BY <1>1, <1>2, <1>4, Proceeds
<1>5. ASSUME OnlyCall, UNCHANGED stored, Return(c) \/ Go(c, "save")
      PROVE  Inv'
  <2>1. Moves(c) /\ Fits(c, "save", stored')
    BY <1>1, <1>2, <1>5, StoredIsWithin, OnlyCallFrame DEF Moves, Within
  <2> QED
    BY <1>2, <1>5, <2>1, GoIs, Goes, Returns DEF Inv
<1> QED
  BY <1>3, <1>4, <1>5 DEF annotatePVC

-----------------------------------------------------------------------------
(***************************************************************************)
(* Calls start                                                             *)
(***************************************************************************)
LEMMA StartsProvision ==
    ASSUME Inv, NEW c \in Claims, NEW id, NEW gid \in GIDs \cup {NoGID}, NEW step \in Steps,
           CanProvision(c), StartProvision(c, id, gid, step),
           \/ id \in {OfPV(c), Fresh}
           \/ backend \in Sharing /\ id \in {OfName(c), OfSnapshot},
           ProvisionStep(step), MadeAt(id, step, stored),
           backend \in File \cup {"simple"} => gid \in GIDs,
           gids' \subseteq GIDs, options' \in {options, c},
           backend \in File => options' = c
    PROVE  Inv'
<1>0. /\ Typed /\ ClaimOK(c) /\ call[c] = NoCall /\ claim[c] = "pending"
      /\ UNCHANGED <<backend, NameOf, claim, pv, stored>>
  BY DEF CanProvision, StartProvision, Inv
<1>1. made \in Nat /\ made' \in {made, made + 1} /\ (id = Fresh => made' = made + 1)
  BY <1>0 DEF StartProvision, Typed
<1>2. /\ Ids \subseteq Ids' /\ Names' = Names /\ made' \in Nat
      /\ \A d \in Claims : OfPV(d)' = OfPV(d)
      /\ 1..made \subseteq 1..made'
  BY <1>0, <1>1 DEF Ids, Names, OfPV, OfName, OfSnapshot
<1>3. id \in Ids' /\ id /= NoId
  <2>1. id /= NoId
    BY DEF Fresh, OfPV, OfName, OfSnapshot, NoId
  <2>2. CASE id = Fresh
    <3>1. made + 1 \in 1..made'
      BY <1>1, <2>2
    <3> QED
      BY <2>1, <2>2, <3>1 DEF Ids, Fresh
  <2>3. CASE id = OfPV(c) \/ id = OfSnapshot
    BY <1>2, <2>1, <2>3 DEF Ids
  <2>4. CASE id = OfName(c)
    BY <1>2, <2>1, <2>4 DEF Ids
  <2> QED
    BY <2>2, <2>3, <2>4
<1>4. backend \notin Sharing => id \in {OfPV(c)} \cup {<<"uuid", n>> : n \in 1..made'}
  BY <1>1 DEF Fresh
<1> DEFINE new == [op |-> "Provision", at |-> step, volume |-> id, gid |-> gid, endpoint |-> None]
<1>5. call' = [call EXCEPT ![c] = new]
  BY DEF StartProvision
<1>6. /\ new.op = "Provision" /\ new.at = step /\ new.volume = id /\ new.gid = gid
      /\ new \in Calls'
  BY <1>3 DEF Calls, None
<1>7. Calls \subseteq Calls'
  BY <1>2 DEF Calls
<1> HIDE DEF new
<1>8. /\ call'[c] = new
      /\ \A d \in Claims \ {c} : call'[d] = call[d]
      /\ call' \in [Claims -> Calls']
  BY <1>0, <1>5, <1>6, <1>7 DEF Typed
<1>9. Typed'
  <2>1. \A d \in Claims : /\ call'[d].op \in {None, "Provision", "Delete"}
                          /\ call'[d].volume \in Ids' \cup {NoId}
    BY <1>8 DEF Calls
  <2>2. pv' \in [Claims -> [phase : {"none", "saved", "removed"}, volume : Ids' \cup {NoId},
                            gid : GIDs \cup {NoGID}, endpoint : Names' \cup {None}]]
    <3>1. pv \in [Claims -> [phase : {"none", "saved", "removed"}, volume : Ids \cup {NoId},
                            gid : GIDs \cup {NoGID}, endpoint : Names \cup {None}]]
      BY <1>0 DEF Typed, TypeOK, BaseTypeOK
    <3>2. [phase : {"none", "saved", "removed"}, volume : Ids \cup {NoId},
           gid : GIDs \cup {NoGID}, endpoint : Names \cup {None}]
            \subseteq [phase : {"none", "saved", "removed"}, volume : Ids' \cup {NoId},
                       gid : GIDs \cup {NoGID}, endpoint : Names' \cup {None}]
      BY <1>2
    <3> QED
      BY <1>0, <3>1, <3>2
  <2>3. stored' \subseteq {Volume(i) : i \in Ids'} \cup {Bricks(i) : i \in Ids'}
                          \cup {User(i) : i \in Ids'} \cup {Secret(i) : i \in Ids'}
                          \cup {Service(n) : n \in Names'}
    <3>1. stored \subseteq {Volume(i) : i \in Ids} \cup {Bricks(i) : i \in Ids}
                          \cup {User(i) : i \in Ids} \cup {Secret(i) : i \in Ids}
                          \cup {Service(n) : n \in Names}
      BY <1>0 DEF Typed, TypeOK, BaseTypeOK
    <3> QED
      BY <1>0, <1>2, <3>1
  <2>4. \A d \in Claims : pv[d].phase /= "none" => pv[d].volume \in Ids'
    BY <1>0, <1>2 DEF Typed, TypeOK, BaseTypeOK
  <2>5. options' \in Claims \cup {None}
    BY <1>0 DEF Typed, TypeOK, BaseTypeOK
  <2>6. TypeOK'
    BY <1>0, <2>1, <2>2, <2>3, <2>4, <2>5 DEF Typed, TypeOK, BaseTypeOK
  <2> QED
    BY <1>2, <1>8, <2>6 DEF Typed
<1>10. pv[c] = NoPV /\ NoPV.phase = "none" /\ NoPV.volume = NoId
  BY <1>0 DEF ClaimOK, LifeOK, NoPV
<1>11. Holds(c)' = {id} /\ \A d \in Claims \ {c} : Holds(d)' = Holds(d)
  BY <1>0, <1>3, <1>6, <1>8, <1>10 DEF Holds
<1>12. ClaimOK(c)'
  <2>1. CallOK(c)'
    BY <1>0, <1>3, <1>6, <1>8 DEF CallOK, MadeAt, ProvisionStep, None
  <2>2. LifeOK(c)' /\ OwnName(c)' /\ Usable(c)' /\ Gone(c)'
    BY <1>0, <1>2, <1>4, <1>6, <1>8, <1>10, <1>11
    DEF ClaimOK, LifeOK, OwnName, Usable, Gone
  <2> QED
    BY <2>1, <2>2 DEF ClaimOK
<1>13. ASSUME NEW d \in Claims, d /= c PROVE ClaimOK(d)'
  <2>0. ClaimOK(d) /\ call'[d] = call[d]
    BY <1>8, <1>13 DEF Inv
  <2>1. CallOK(d)'
    BY <1>0, <1>2, <2>0
    DEF ClaimOK, CallOK, ProvisionStep, DeleteStep, MadeAt, GoneAt
  <2>2. LifeOK(d)' /\ OwnName(d)' /\ Usable(d)' /\ Gone(d)'
    BY <1>0, <1>2, <1>11, <1>13, <2>0
    DEF ClaimOK, LifeOK, OwnName, Usable, Gone, Needed
  <2> QED
    BY <2>1, <2>2 DEF ClaimOK
<1>14. ASSUME NEW d \in Claims, d /= c, backend \notin Sharing PROVE id \notin Holds(d)
  <2>1. Holds(d) \subseteq {OfPV(d)} \cup {<<"uuid", n>> : n \in 1..made}
    BY <1>14 DEF Inv, ClaimOK, OwnName
  <2>2. id \in {OfPV(c), Fresh}
    BY <1>14
  <2> QED
    BY <1>1, <1>14, <2>1, <2>2 DEF OfPV, Fresh
<1>15. ASSUME NEW d \in Claims, NEW e \in Claims, d /= e PROVE Apart(d, e)'
  BY <1>0, <1>11, <1>14, <1>15 DEF Inv, Apart
<1> QED
  BY <1>9, <1>12, <1>13, <1>15 DEF Inv

LEMMA StartsDelete ==
    ASSUME Inv, NEW c \in Claims, NEW step \in Steps, StartDelete(c, step),
           DeleteStep(step), step \in {"status", "deauthorize", "delete", "stop", "remove"},
           gids' \subseteq gids
    PROVE  Inv'
<1>0. /\ Typed /\ ClaimOK(c) /\ call[c] = NoCall /\ claim[c] = "deleted" /\ pv[c].phase = "saved"
      /\ UNCHANGED <<backend, NameOf, claim, pv, stored, made, options>>
  BY DEF CanDelete, Released, StartDelete, Inv
<1>1. Ids' = Ids /\ Names' = Names /\ Calls' = Calls /\ \A d \in Claims : OfPV(d)' = OfPV(d)
  BY <1>0 DEF Ids, Names, Calls, OfPV, OfName, OfSnapshot
<1> DEFINE new == [op |-> "Delete", at |-> step, volume |-> pv[c].volume,
                   gid |-> pv[c].gid, endpoint |-> pv[c].endpoint]
<1>2. call' = [call EXCEPT ![c] = new]
  BY DEF StartDelete
<1>3. pv[c].volume \in Ids /\ pv[c].gid \in GIDs \cup {NoGID} /\ pv[c].endpoint \in Names \cup {None}
  BY <1>0 DEF Typed, TypeOK, BaseTypeOK
<1>4. /\ new.op = "Delete" /\ new.at = step /\ new.volume = pv[c].volume
      /\ new \in Calls
  BY <1>3 DEF Calls, None
<1> HIDE DEF new
<1>5. /\ call'[c] = new
      /\ \A d \in Claims \ {c} : call'[d] = call[d]
      /\ call' \in [Claims -> Calls]
  BY <1>0, <1>2, <1>4 DEF Typed
<1>6. Typed'
  <2>1. \A d \in Claims : /\ call'[d].op \in {None, "Provision", "Delete"}
                          /\ call'[d].volume \in Ids \cup {NoId}
    BY <1>5 DEF Calls
  <2> QED
    BY <1>0, <1>1, <1>5, <2>1 DEF Typed, TypeOK, BaseTypeOK
<1>7. ASSUME NEW d \in Claims PROVE Holds(d)' \subseteq Holds(d)
  BY <1>0, <1>4, <1>5 DEF Holds
<1>8. ClaimOK(c)'
  <2>1. CallOK(c)'
    BY <1>0, <1>1, <1>3, <1>4, <1>5 DEF CallOK, GoneAt, DeleteStep, None
  <2>2. LifeOK(c)' /\ OwnName(c)' /\ Usable(c)' /\ Gone(c)'
    BY <1>0, <1>1, <1>4, <1>5, <1>7 DEF ClaimOK, LifeOK, OwnName, Usable, Gone, Needed
  <2> QED
    BY <2>1, <2>2 DEF ClaimOK
<1>9. ASSUME NEW d \in Claims, d /= c PROVE ClaimOK(d)'
  <2>0. ClaimOK(d) /\ call'[d] = call[d]
    BY <1>5, <1>9 DEF Inv
  <2>1. CallOK(d)'
    BY <1>0, <1>1, <2>0
    DEF ClaimOK, CallOK, ProvisionStep, DeleteStep, MadeAt, GoneAt
  <2>2. LifeOK(d)' /\ OwnName(d)' /\ Usable(d)' /\ Gone(d)'
    BY <1>0, <1>1, <1>7, <2>0 DEF ClaimOK, LifeOK, OwnName, Usable, Gone, Needed
  <2> QED
    BY <2>1, <2>2 DEF ClaimOK
<1>10. ASSUME NEW d \in Claims, NEW e \in Claims, d /= e PROVE Apart(d, e)'
  BY <1>0, <1>7, <1>10 DEF Inv, Apart
<1> QED
  BY <1>6, <1>8, <1>9, <1>10 DEF Inv

LEMMA Starts ==
    ASSUME Inv, NEW c \in Claims,
           \/ RBDProvision(c) \/ CephFSProvision(c) \/ BlockProvision(c) \/ RestoreProvision(c)
           \/ RBDDelete(c) \/ CephFSDelete(c) \/ BlockDelete(c)
           \/ FileDelete(c) \/ SimpleDelete(c) \/ RestoreDelete(c)
    PROVE  Inv'
<1>0. gids \subseteq GIDs
  BY DEF Inv, Typed, TypeOK, BaseTypeOK
<1>1. CASE RBDProvision(c)
  <2>1. ProvisionStep("image") /\ MadeAt(image(c), "image", stored) /\ "image" \in Steps
    BY <1>1 DEF RBDProvision, ProvisionStep, MadeAt, Steps
  <2> QED
    BY <1>0, <1>1, <2>1, StartsProvision DEF RBDProvision, image, RBD, CephFS, Block, File, Restores, Forgetful, Sharing
<1>2. CASE CephFSProvision(c)
  <2>1. ProvisionStep("share") /\ MadeAt(share(c), "share", stored) /\ "share" \in Steps
    BY <1>2 DEF CephFSProvision, ProvisionStep, MadeAt, Steps
  <2> QED
    BY <1>0, <1>2, <2>1, StartsProvision DEF CephFSProvision, share, RBD, CephFS, Block, File, Restores, Forgetful, Sharing
<1>3. CASE BlockProvision(c)
  <2>1. ProvisionStep("create") /\ MadeAt(Fresh, "create", stored) /\ "create" \in Steps
    BY <1>3 DEF BlockProvision, ProvisionStep, MadeAt, Steps
  <2> QED
    BY <1>0, <1>3, <2>1, StartsProvision DEF BlockProvision, RBD, CephFS, Block, File, Restores, Forgetful, Sharing
<1>4. CASE RestoreProvision(c)
  <2>1. ProvisionStep("restore") /\ MadeAt(restored(c), "restore", stored) /\ "restore" \in Steps
    BY <1>4 DEF RestoreProvision, ProvisionStep, MadeAt, Steps
  <2>2. /\ backend = "restore-gce" => restored(c) = OfPV(c)
        /\ backend = "restore-glusterfs" => restored(c) = OfSnapshot
        /\ backend \notin {"restore-gce", "restore-glusterfs"} => restored(c) = Fresh
    BY DEF restored
  <2> QED
    BY <1>0, <1>4, <2>1, <2>2, StartsProvision DEF RestoreProvision, RBD, CephFS, Block, File, Restores, Forgetful, Sharing
<1>5. CASE RBDDelete(c)
  <2>1. DeleteStep("status") /\ "status" \in Steps /\ StartDelete(c, "status") /\ gids' \subseteq gids
    BY <1>5 DEF RBDDelete, DeleteStep, Steps
  <2> QED
    BY <2>1, StartsDelete
<1>6. CASE CephFSDelete(c)
  <2>1. DeleteStep("deauthorize") /\ "deauthorize" \in Steps /\ StartDelete(c, "deauthorize")
          /\ gids' \subseteq gids
    BY <1>6 DEF CephFSDelete, CephFS, DeleteStep, Steps
  <2> QED
    BY <2>1, StartsDelete
<1>7. CASE BlockDelete(c) \/ FileDelete(c)
  <2>1. DeleteStep("delete") /\ "delete" \in Steps /\ StartDelete(c, "delete") /\ gids' \subseteq gids
    BY <1>7 DEF BlockDelete, FileDelete, DeleteStep, Steps
  <2> QED
    BY <2>1, StartsDelete
<1>8. CASE SimpleDelete(c)
  <2>1. DeleteStep("stop") /\ "stop" \in Steps /\ StartDelete(c, "stop") /\ gids' \subseteq gids
    BY <1>8 DEF SimpleDelete, DeleteStep, Steps
  <2> QED
    BY <2>1, StartsDelete
<1>9. CASE RestoreDelete(c)
  <2>1. DeleteStep("remove") /\ "remove" \in Steps /\ StartDelete(c, "remove") /\ gids' \subseteq gids
    BY <1>9 DEF RestoreDelete, DeleteStep, Steps
  <2> QED
    BY <2>1, StartsDelete
<1> QED
  BY <1>1, <1>2, <1>3, <1>4, <1>5, <1>6, <1>7, <1>8, <1>9

\* Provision with a GID: p.options is set even if there is none.
LEMMA GIDStarts ==
    ASSUME Inv, NEW c \in Claims, FileProvision(c) \/ SimpleProvision(c)
    PROVE  Inv'
<1>0. gids \subseteq GIDs
  BY DEF Inv, Typed, TypeOK, BaseTypeOK
<1>1. CASE SimpleProvision(c)
  <2>1. ProvisionStep("bricks") /\ MadeAt(OfPV(c), "bricks", stored) /\ "bricks" \in Steps
    BY <1>1 DEF SimpleProvision, ProvisionStep, MadeAt, Steps
  <2>2. NextGID \in GIDs
    BY <1>1, NextGIDType DEF SimpleProvision
  <2> QED
    BY <1>0, <1>1, <2>1, <2>2, StartsProvision DEF SimpleProvision, RBD, CephFS, Block, File, Restores, Forgetful, Sharing
<1>2. CASE FileProvision(c) /\ ~ (GIDs \subseteq gids)
  <2>1. ProvisionStep("volume") /\ MadeAt(Fresh, "volume", stored) /\ "volume" \in Steps
    BY <1>2 DEF FileProvision, ProvisionStep, MadeAt, Steps
  <2>2. NextGID \in GIDs
    BY <1>2, NextGIDType
  <2> QED
    BY <1>0, <1>2, <2>1, <2>2, StartsProvision DEF FileProvision, RBD, CephFS, Block, File, Restores, Forgetful, Sharing
<1>3. CASE FileProvision(c) /\ GIDs \subseteq gids
  <2>0. /\ UNCHANGED <<backend, NameOf, claim, pv, call, stored, made, gids, faults>>
        /\ options' = c /\ Typed
    BY <1>3 DEF FileProvision, Inv
  <2>1. Ids' = Ids /\ Names' = Names /\ Calls' = Calls /\ \A d \in Claims : OfPV(d)' = OfPV(d)
    BY <2>0 DEF Ids, Names, Calls, OfPV, OfName, OfSnapshot
  <2>2. Typed'
    BY <2>0, <2>1 DEF Typed, TypeOK, BaseTypeOK
  <2>3. ASSUME NEW d \in Claims PROVE ClaimOK(d)'
    <3>0. ClaimOK(d)
      BY DEF Inv
    <3>1. CallOK(d)'
      BY <2>0, <2>1, <3>0 DEF ClaimOK, CallOK, ProvisionStep, DeleteStep, MadeAt, GoneAt
    <3>2. LifeOK(d)' /\ OwnName(d)' /\ Usable(d)' /\ Gone(d)'
      BY <2>0, <2>1, <3>0 DEF ClaimOK, LifeOK, OwnName, Holds, Usable, Gone, Needed
    <3> QED
      BY <3>1, <3>2 DEF ClaimOK
  <2>4. \A d, e \in Claims : d /= e => Apart(d, e)'
    BY <2>0 DEF Inv, Apart, Holds
  <2> QED
    BY <2>2, <2>3, <2>4 DEF Inv
<1> QED
  BY <1>1, <1>2, <1>3

-----------------------------------------------------------------------------
(***************************************************************************)
(* Calls end: the PV is saved, or removed.                                 *)
(***************************************************************************)
LEMMA PVSteps ==
    ASSUME Inv, NEW c \in Claims, call[c].op /= None, Return(c),
           NEW next \in [phase : {"saved", "removed"}, volume : Ids,
                         gid : GIDs \cup {NoGID}, endpoint : Names \cup {None}],
           pv' = [pv EXCEPT ![c] = next], next.volume = call[c].volume,
           NEW life \in {"bound", "deleted"}, claim' = [claim EXCEPT ![c] = life],
           life = "bound" => next.phase = "saved",
           backend \in File \cup {"simple"} => next.gid \in GIDs,
           UNCHANGED <<backend, NameOf, stored, made, gids, options>>,
           Usable(c)', Gone(c)'
    PROVE  Inv'
<1>0. Typed /\ ClaimOK(c)
  BY DEF Inv
<1>1. Ids' = Ids /\ Names' = Names /\ Calls' = Calls /\ \A d \in Claims : OfPV(d)' = OfPV(d)
  BY DEF Ids, Names, Calls, OfPV, OfName, OfSnapshot
<1>2. NoCall \in Calls /\ NoCall.op = None /\ NoCall.volume = NoId
  BY DEF Calls, NoCall, Steps, None
<1>3. /\ call' \in [Claims -> Calls] /\ call'[c] = NoCall
      /\ \A d \in Claims \ {c} : call'[d] = call[d]
  BY <1>0, <1>2 DEF Typed, Return
<1> DEFINE PVs == [phase : {"none", "saved", "removed"}, volume : Ids \cup {NoId},
                   gid : GIDs \cup {NoGID}, endpoint : Names \cup {None}]
<1>4. /\ pv' \in [Claims -> PVs] /\ pv'[c] = next
      /\ \A d \in Claims \ {c} : pv'[d] = pv[d]
  <2>1. pv \in [Claims -> PVs] /\ next \in PVs
    BY <1>0 DEF Typed, TypeOK, BaseTypeOK
  <2> HIDE DEF PVs
  <2> QED
    BY <2>1
<1>5. /\ claim' \in [Claims -> {"none", "pending", "bound", "deleted"}] /\ claim'[c] = life
      /\ \A d \in Claims \ {c} : claim'[d] = claim[d]
  BY <1>0 DEF Typed, TypeOK, BaseTypeOK
<1>6. Typed'
  <2>1. \A d \in Claims : /\ call'[d].op \in {None, "Provision", "Delete"}
                          /\ call'[d].volume \in Ids \cup {NoId}
    BY <1>3 DEF Calls
  <2>2. \A d \in Claims : pv'[d].phase /= "none" => pv'[d].volume \in Ids
    BY <1>0, <1>4 DEF Typed, TypeOK, BaseTypeOK
  <2>3. backend \in File \cup {"simple"} =>
            \A d \in Claims : pv'[d].phase /= "none" => pv'[d].gid \in GIDs
    BY <1>0, <1>4 DEF Typed, TypeOK
  <2>4. BaseTypeOK'
    BY <1>0, <1>1, <1>4, <1>5, <2>1, <2>2 DEF Typed, TypeOK, BaseTypeOK
  <2> QED
    BY <1>0, <1>1, <1>3, <2>3, <2>4 DEF Typed, TypeOK
<1>7. ASSUME NEW d \in Claims PROVE Holds(d)' \subseteq Holds(d)
  BY <1>2, <1>3, <1>4 DEF Holds
<1>8. ClaimOK(c)'
  <2>1. CallOK(c)'
    BY <1>2, <1>3 DEF CallOK, None, NoCall
  <2>2. LifeOK(c)'
    BY <1>2, <1>3, <1>4, <1>5 DEF LifeOK, None
  <2>3. OwnName(c)'
    BY <1>0, <1>1, <1>7 DEF ClaimOK, OwnName
  <2> QED
    BY <2>1, <2>2, <2>3 DEF ClaimOK
<1>9. ASSUME NEW d \in Claims, d /= c PROVE ClaimOK(d)'
  <2>0. ClaimOK(d) /\ call'[d] = call[d] /\ pv'[d] = pv[d] /\ claim'[d] = claim[d]
    BY <1>3, <1>4, <1>5, <1>9 DEF Inv
  <2>1. CallOK(d)'
    BY <1>1, <2>0
    DEF ClaimOK, CallOK, ProvisionStep, DeleteStep, MadeAt, GoneAt
  <2>2. LifeOK(d)' /\ OwnName(d)' /\ Usable(d)' /\ Gone(d)'
    BY <1>1, <1>7, <2>0 DEF ClaimOK, LifeOK, OwnName, Usable, Gone, Needed
  <2> QED
    BY <2>1, <2>2 DEF ClaimOK
<1>10. ASSUME NEW d \in Claims, NEW e \in Claims, d /= e PROVE Apart(d, e)'
  BY <1>7, <1>10 DEF Inv, Apart
<1> QED
  BY <1>6, <1>8, <1>9, <1>10 DEF Inv

LEMMA SaveStep ==
    ASSUME Inv, NEW c \in Claims, SavePV(c)
    PROVE  Inv'
<1>0. Typed /\ ClaimOK(c) /\ call[c].op = "Provision" /\ call[c].at = "save"
  BY DEF SavePV, At, Inv
<1> DEFINE next == [phase |-> "saved", volume |-> call[c].volume,
                    gid |-> call[c].gid, endpoint |-> call[c].endpoint]
           life == IF claim[c] = "pending" THEN "bound" ELSE claim[c]
<1>1. next \in [phase : {"saved", "removed"}, volume : Ids,
                gid : GIDs \cup {NoGID}, endpoint : Names \cup {None}]
  <2>1. call[c] \in Calls /\ call[c].volume \in Ids
    BY <1>0, AtStep DEF Typed
  <2> QED
    BY <2>1 DEF Calls
<1>2. backend \in File \cup {"simple"} => next.gid \in GIDs
  BY <1>0 DEF ClaimOK, CallOK
<1>3. next.volume = call[c].volume /\ next.phase = "saved"
  OBVIOUS
<1>4. pv' = [pv EXCEPT ![c] = next]
  BY DEF SavePV
<1>5. life \in {"bound", "deleted"} /\ claim' = [claim EXCEPT ![c] = life]
  <2>1. claim \in [Claims -> {"none", "pending", "bound", "deleted"}]
    BY <1>0 DEF Typed, TypeOK, BaseTypeOK
  <2> QED
    BY <1>0, <2>1 DEF SavePV, ClaimOK, LifeOK
<1> HIDE DEF next, life
<1>6. pv'[c] = next
  BY <1>0, <1>4 DEF Typed, TypeOK, BaseTypeOK
<1>7. UNCHANGED <<backend, NameOf, stored, made, gids, options>> /\ Return(c)
  BY DEF SavePV
<1>8. Usable(c)' /\ Gone(c)'
  <2>1. MadeAt(call[c].volume, "save", stored)
    BY <1>0 DEF ClaimOK, CallOK
  <2> QED
    BY <1>3, <1>6, <1>7, <2>1 DEF Usable, Gone, Needed, MadeAt
<1> QED
  BY <1>0, <1>1, <1>2, <1>3, <1>4, <1>5, <1>7, <1>8, PVSteps DEF None

LEMMA RemoveStep ==
    ASSUME Inv, NEW c \in Claims, RemovePV(c)
    PROVE  Inv'
<1>0. Typed /\ ClaimOK(c) /\ call[c].op = "Delete" /\ call[c].at = "gone"
  BY DEF RemovePV, At, Inv
<1>1. UNCHANGED <<backend, NameOf, claim, stored, made, gids, options>> /\ Return(c)
  BY DEF RemovePV
<1>2. CASE UNCHANGED pv
  <2>1. Moves(c)
    BY <1>0, <1>1, <1>2, StoredIsWithin DEF Moves, Frame, Within, None
  <2> QED
    BY <1>1, <2>1, Returns
<1>3. CASE pv' = [pv EXCEPT ![c].phase = "removed"]
  <2> DEFINE next == [pv[c] EXCEPT !.phase = "removed"]
  <2>1. /\ claim[c] = "deleted" /\ pv[c].phase = "saved" /\ call[c].volume = pv[c].volume
        /\ pv[c].volume \in Ids
        /\ backend \in File \cup {"simple"} => pv[c].gid \in GIDs
    BY <1>0 DEF ClaimOK, LifeOK, Typed, TypeOK, BaseTypeOK
  <2>2. pv[c] \in [phase : {"none", "saved", "removed"}, volume : Ids \cup {NoId},
                   gid : GIDs \cup {NoGID}, endpoint : Names \cup {None}]
    BY <1>0 DEF Typed, TypeOK, BaseTypeOK
  <2>3. /\ next \in [phase : {"saved", "removed"}, volume : Ids,
                     gid : GIDs \cup {NoGID}, endpoint : Names \cup {None}]
        /\ next.volume = pv[c].volume /\ next.gid = pv[c].gid /\ next.phase = "removed"
    BY <2>1, <2>2
  <2>4. pv' = [pv EXCEPT ![c] = next]
    BY <1>3
  <2> HIDE DEF next
  <2>5. claim' = [claim EXCEPT ![c] = "deleted"]
    BY <1>0, <1>1, <2>1 DEF Typed, TypeOK, BaseTypeOK
  <2>6. pv'[c] = next /\ claim'[c] = "deleted"
    BY <1>0, <1>1, <2>1, <2>4 DEF Typed, TypeOK, BaseTypeOK
  <2>7. Usable(c)' /\ Gone(c)'
    <3>1. GoneAt(call[c].volume, "gone", stored) /\ DeleteStep("gone")
      BY <1>0 DEF ClaimOK, CallOK
    <3>2. backend /= "cephfs-names"
      BY <3>1 DEF DeleteStep, RBD, CephFS, Block, File, Restores, Forgetful, Sharing
    <3> QED
      BY <1>1, <2>1, <2>3, <2>6, <3>1, <3>2 DEF Usable, Gone, Needed, GoneAt
  <2> QED
    BY <1>0, <1>1, <2>1, <2>3, <2>4, <2>5, <2>7, PVSteps DEF None
<1> QED
  BY <1>2, <1>3 DEF RemovePV

-----------------------------------------------------------------------------
LEMMA InitInv == Init => Inv
<1> SUFFICES ASSUME Init PROVE Inv
  OBVIOUS
<1> USE DEF Init, BaseInit
<1>1. NoCall \in Calls /\ NoCall.op = None /\ NoCall.volume = NoId
  BY DEF Calls, NoCall, Steps, None
<1>2. /\ NoPV \in [phase : {"none", "saved", "removed"}, volume : Ids \cup {NoId},
                   gid : GIDs \cup {NoGID}, endpoint : Names \cup {None}]
      /\ NoPV.phase = "none" /\ NoPV.volume = NoId
  BY DEF NoPV
<1>3. call \in [Claims -> Calls] /\ \A c \in Claims : call[c] = NoCall /\ pv[c] = NoPV
  BY <1>1
<1>4. Typed
  BY <1>1, <1>2, <1>3 DEF Typed, TypeOK, BaseTypeOK
<1>5. ASSUME NEW c \in Claims PROVE ClaimOK(c) /\ Holds(c) = {}
  <2>1. Holds(c) = {}
    BY <1>1, <1>2, <1>3 DEF Holds
  <2> QED
    BY <1>1, <1>2, <1>3, <2>1 DEF ClaimOK, CallOK, LifeOK, OwnName, Usable, Gone, None
<1> QED
  BY <1>4, <1>5 DEF Inv, Apart

LEMMA StepInv ==
    ASSUME Inv, NEW c \in Claims, Step(c)
    PROVE  Inv'
<1>1. CASE CephStep(c)
  BY <1>1, CephSteps, Starts DEF CephStep
<1>2. CASE GlusterStep(c)
  BY <1>2, Starts, GIDStarts, BlockSteps, BlockCommandSteps, FileSteps, FileServiceSteps,
     AnnotateStep, SimpleSteps, SimpleServiceSteps, ReleaseStep
  DEF GlusterStep
<1>3. CASE RestoreStep(c)
  BY <1>3, Starts, RestoringSteps, RemovingSteps, OtherRestoreSteps DEF RestoreStep
<1> QED
  BY <1>1, <1>2, <1>3, SaveStep, RemoveStep DEF Step

LEMMA StutterInv ==
    ASSUME Inv, UNCHANGED vars
    PROVE  Inv'
<1> USE DEF vars
<1>1. Ids' = Ids /\ Names' = Names /\ Calls' = Calls
  BY DEF Ids, Names, Calls, OfPV, OfName, OfSnapshot
<1>2. Typed'
  BY <1>1 DEF Inv, Typed, TypeOK, BaseTypeOK
<1>3. ASSUME NEW c \in Claims PROVE ClaimOK(c)'
  <2>1. CallOK(c)'
    BY <1>1 DEF Inv, ClaimOK, CallOK, ProvisionStep, DeleteStep, MadeAt, GoneAt
  <2>2. LifeOK(c)' /\ OwnName(c)' /\ Usable(c)' /\ Gone(c)'
    BY <1>1 DEF Inv, ClaimOK, LifeOK, OwnName, OfPV, Holds, Usable, Gone, Needed
  <2> QED
    BY <2>1, <2>2 DEF ClaimOK
<1>4. \A d, e \in Claims : d /= e => Apart(d, e)'
  BY DEF Inv, Apart, Holds
<1> QED
  BY <1>2, <1>3, <1>4 DEF Inv

\* Every step of the provisioners and their library keeps the invariant.
THEOREM ClaimsInvariant == Spec => []Inv
<1>1. ASSUME Inv, [Next]_vars PROVE Inv'
  BY <1>1, ClaimSteps, StepInv, CrashStep, StutterInv DEF Next, Restart
<1> QED
  BY InitInv, <1>1, PTL DEF Spec

(***************************************************************************)
(* The calls of all backends, their volumes, GIDs and Services stay within *)
(* their types; every PV of gluster/file and gluster/glusterfs has a GID   *)
(* of the range.                                                           *)
(***************************************************************************)
THEOREM ClaimsTypeCorrect == Spec => []TypeOK
<1>1. Inv => TypeOK
  BY DEF Inv, Typed
<1> QED
  BY ClaimsInvariant, <1>1, PTL

(***************************************************************************)
(* Whatever Provision, Delete, their retries and restarts do for other     *)
(* claims, a bound claim keeps its volume, its user and its Secret.        *)
(***************************************************************************)
THEOREM BoundClaimsUsable == Spec => []BoundIsUsable
<1>1. Inv => BoundIsUsable
  BY DEF Inv, ClaimOK, Usable, BoundIsUsable
<1> QED
  BY ClaimsInvariant, <1>1, PTL

(***************************************************************************)
(* A PV object is gone only when Delete has removed what it stands for,    *)
(* but for the backends whose Delete ignores errors (Forgetful), and for   *)
(* the user of cephfs, whose removal ignores them.                         *)
(***************************************************************************)
THEOREM RemovedPVsGone == Spec => []RemovedWithPV
<1>1. Inv => RemovedWithPV
  BY DEF Inv, ClaimOK, Gone, RemovedWithPV
<1> QED
  BY ClaimsInvariant, <1>1, PTL
=============================================================================
