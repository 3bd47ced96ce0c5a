------------------------ MODULE DisconnectRaceProofs ------------------------
(***************************************************************************)
(* Theorems of DisconnectRace: as long as no two actors meet at one player *)
(* and the store has had room, every statement of disconnect and of a      *)
(* return finds the registry as its author expected.                       *)
(***************************************************************************)
EXTENDS DisconnectRace, TLAPS

Early  == {"validate", "unregister"}
Late   == {"search", "away", "store", "close"}
Labels == {"idle", "found", "accepted", "named", "replace", "take_out", "login"} \cup Early \cup Late

Locals == [at : Labels, p : 0 .. MaxStructs, fd : Fds \cup {-1}, life : Nat, slot : Nat]

RaceTypeOK ==
    /\ players \in [Fds -> 0 .. MaxStructs]
    /\ dc_players \in [StoreSlots -> 0 .. MaxStructs]
    /\ fd \in [Structs -> Fds \cup {-1}]
    /\ name \in [Structs -> Names \cup {NewPlayer}]
    /\ allocated \in 0 .. MaxStructs
    /\ socket \in [Fds -> [life : Nat, open : BOOLEAN]]
    /\ watched \subseteq Structs
    /\ halt \in BOOLEAN
    /\ step \in [Actors -> Locals]
    /\ \A a \in Actors : step[a].at \notin {"idle", "accepted"} => step[a].p \in Structs
    /\ step[Main].at = "accepted" => allocated < MaxStructs

\* The registered player has the descriptor he is registered under, and it is open.
RegistryOpen ==
    \A f \in Fds : players[f] # NoPlayer => fd[players[f]] = f /\ socket[f].open

\* Players with a thread have logged in.
WatchedNamed == \A p \in watched : name[p] # NewPlayer

\* What the actor a may count on where it is.
ActorOK(a) ==
    LET at == step[a].at
        p  == step[a].p
        f  == step[a].fd
    IN  /\ at \in Early => f \in Fds /\ fd[p] = f /\ players[f] = p
        /\ at \in Late => f \in Fds /\ players[f] = NoPlayer
        /\ at \in Early \cup Late => socket[f].open /\ socket[f].life = step[a].life
        /\ at \in {"search", "away"} => fd[p] = f
        /\ at \in {"store", "close"} => fd[p] = -1
        /\ at = "store" => \A i \in StoreSlots : dc_players[i] # p
        /\ at = "accepted" => f \in Fds /\ players[f] = NoPlayer /\ socket[f].open /\ allocated < MaxStructs
        /\ at \in {"named", "replace", "take_out"} => fd[p] \in Fds /\ name[p] # NewPlayer
        /\ at = "named" => players[fd[p]] = p /\ p \notin watched
        /\ at = "replace" => players[fd[p]] \notin watched \cup {NoPlayer} /\ \A g \in Fds : players[g] # p
        /\ at = "take_out" => players[fd[p]] = p
        /\ at = "login" => \A g \in Fds : fd[p] = g /\ players[g] # NoPlayer => name[players[g]] # NewPlayer
        /\ a # Main /\ at # "idle" => p = a /\ a \in watched /\ at \in {"found"} \cup Early \cup Late

Holds(a) == step[a].at \in {"accepted"} \cup Early \cup Late

\* No two actors hold one descriptor.
HoldersDiffer ==
    \A a, b \in Actors : a # b /\ Holds(a) /\ Holds(b) => step[a].fd # step[b].fd

\* Players in the store have no descriptor, but for the one who is returning, and are in it once.
Restoring(p) == step[Main].at \in {"replace", "take_out"} /\ step[Main].p = p
StoreOK ==
    \A i \in StoreSlots : dc_players[i] # NoPlayer =>
       /\ fd[dc_players[i]] = -1 \/ Restoring(dc_players[i])
       /\ Restoring(dc_players[i]) => i = step[Main].slot
       /\ \A j \in StoreSlots : dc_players[j] = dc_players[i] => j = i

\* A player who may be disconnected next is registered, if he has a descriptor and nobody is
\* at work on him already.
Reachable(p) == p \in watched \/ (step[Main].at = "found" /\ step[Main].p = p)
ReachableOK ==
    \A p \in Structs : Reachable(p) /\ fd[p] # -1 =>
       players[fd[p]] = p \/ \E a \in Actors : WorksOn(a, p)

\* The next struct is really new.
NewUnused ==
    \A p \in Structs : p > allocated =>
       /\ fd[p] = -1 /\ p \notin watched
       /\ \A i \in StoreSlots : dc_players[i] # p
       /\ \A a \in Actors : step[a].p # p

Core ==
    /\ RegistryOpen /\ WatchedNamed /\ HoldersDiffer /\ StoreOK /\ ReachableOK /\ NewUnused
    /\ \A a \in Actors : ActorOK(a)

\* No two actors are at work on one player.
NoMeeting ==
    \A a, b \in Actors : a # b /\ AtWork(a) /\ AtWork(b) => step[a].p # step[b].p

RaceInv == RaceTypeOK /\ (Undisturbed => NoMeeting /\ Core /\ ~halt)

USE RaceAssumption DEF Structs, Actors, Main, NoPlayer, Locals

LEMMA FdsNat == \A f \in Fds : f \in Nat /\ f # -1 /\ ~(f < 0)
BY RaceAssumption

LEMMA GotoFields ==
    ASSUME RaceTypeOK, NEW a \in Actors, NEW l \in Labels, Goto(a, l)
    PROVE  /\ \A b \in Actors : b # a => step'[b] = step[b]
           /\ step'[a].at = l /\ step'[a].p = step[a].p /\ step'[a].fd = step[a].fd
           /\ step'[a].life = step[a].life /\ step'[a].slot = step[a].slot
BY DEF RaceTypeOK, Goto

LEMMA ReturnFields ==
    ASSUME RaceTypeOK, NEW a \in Actors, Return(a)
    PROVE  /\ \A b \in Actors : b # a => step'[b] = step[b]
           /\ step'[a].at = "idle" /\ step'[a].p = NoPlayer /\ step'[a].fd = -1
BY DEF RaceTypeOK, Return, Idle

\* An actor loses nothing it counts on by a step of another that leaves alone its own player,
\* his entry, and its own descriptor.
LEMMA ActorFrame ==
    ASSUME RaceTypeOK, RaceTypeOK', NEW b \in Actors, ActorOK(b), step'[b] = step[b],
           step[b].fd \in Fds /\ Holds(b) =>
              players'[step[b].fd] = players[step[b].fd] /\ socket'[step[b].fd] = socket[step[b].fd],
           AtWork(b) => fd'[step[b].p] = fd[step[b].p],
           step[b].at = "store" => \A i \in StoreSlots : dc_players'[i] \in {dc_players[i], NoPlayer} \/ dc_players'[i] # step[b].p,
           watched \subseteq watched',
           b = Main =>
              /\ name' = name /\ watched' = watched /\ allocated' = allocated
              /\ step[b].at \in {"named", "replace", "take_out"} =>
                    players'[fd[step[b].p]] = players[fd[step[b].p]]
              /\ \A g \in Fds : players'[g] \in {players[g], NoPlayer}
              /\ step[b].at = "login" => fd'[step[b].p] \in {fd[step[b].p], -1}
    PROVE  ActorOK(b)'
<1> DEFINE p == step[b].p  f == step[b].fd  at == step[b].at
<1>0. at \in Labels /\ (at \notin {"idle", "accepted"} => p \in Structs)
    BY DEF RaceTypeOK
<1>1. CASE at \in {"idle", "found"}
    BY <1>1 DEF ActorOK, Early, Late
<1>2. CASE at \in Early
    BY <1>2, <1>0 DEF ActorOK, Early, Late, Holds, AtWork
<1>3. CASE at \in Late
    BY <1>3, <1>0 DEF ActorOK, Early, Late, Holds, AtWork
<1>4. CASE at = "accepted"
    BY <1>4, <1>0 DEF ActorOK, Early, Late, Holds
<1>5. CASE at \in {"named", "replace", "take_out"}
    BY <1>5, <1>0 DEF ActorOK, Early, Late, AtWork
<1>6. CASE at = "login"
  <2>1. b = Main BY <1>6 DEF ActorOK, Early, Late
  <2>2. \A g \in Fds : fd[p] = g /\ players[g] # NoPlayer => name[players[g]] # NewPlayer
    BY <1>6 DEF ActorOK
  <2>3. ASSUME NEW g \in Fds, fd'[p] = g, players'[g] # NoPlayer
        PROVE  name'[players'[g]] # NewPlayer
    <3>1. fd[p] = g BY <2>1, <2>3, <1>6
    <3>2. players'[g] = players[g] BY <2>1, <2>3
    <3> QED BY <2>1, <2>2, <2>3, <3>1, <3>2
  <2> QED BY <1>6, <2>1, <2>3 DEF ActorOK, Early, Late
<1> QED BY <1>0, <1>1, <1>2, <1>3, <1>4, <1>5, <1>6 DEF Labels

\* Whoever is in use has been allocated.
LEMMA InUse ==
    ASSUME RaceTypeOK, NewUnused
    PROVE  /\ \A a \in Actors : step[a].p \in 0 .. allocated
           /\ \A p \in Structs : fd[p] # -1 \/ p \in watched => p \in 0 .. allocated
           /\ \A i \in StoreSlots : dc_players[i] \in 0 .. allocated
<1>1. \A p \in Structs : p > allocated \/ p \in 0 .. allocated
    BY DEF RaceTypeOK
<1>2. ASSUME NEW a \in Actors PROVE step[a].p \in 0 .. allocated
    BY <1>1, step[a].p \in 0 .. MaxStructs, allocated \in Nat DEF RaceTypeOK, NewUnused
<1>3. ASSUME NEW i \in StoreSlots PROVE dc_players[i] \in 0 .. allocated
    BY <1>1, dc_players[i] \in 0 .. MaxStructs, allocated \in Nat DEF RaceTypeOK, NewUnused
<1> QED BY <1>1, <1>2, <1>3 DEF NewUnused

LEMMA TableTypes ==
    ASSUME RaceTypeOK
    PROVE  /\ \A f \in Fds : players[f] # NoPlayer => players[f] \in Structs
           /\ \A i \in StoreSlots : dc_players[i] # NoPlayer => dc_players[i] \in Structs
BY DEF RaceTypeOK

LEMMA UnregisterStep ==
    ASSUME RaceTypeOK, RaceTypeOK', NoMeeting, NoMeeting', Core, NEW a \in Actors, unregister(a)
    PROVE  Core'
<1> DEFINE p == step[a].p  f == step[a].fd
<1>1. /\ \A b \in Actors : b # a => step'[b] = step[b]
      /\ step[a].at = "unregister" /\ step'[a].at = "search"
      /\ step'[a].p = p /\ step'[a].fd = f /\ step'[a].life = step[a].life /\ step'[a].slot = step[a].slot
    BY GotoFields DEF unregister, At, Labels, Early, Late
<1>2. /\ p \in Structs /\ f \in Fds /\ fd[p] = f /\ players[f] = p
      /\ socket[f].open /\ socket[f].life = step[a].life
      /\ a # Main => a = p /\ p \in watched
    BY <1>1 DEF RaceTypeOK, Core, ActorOK, Early
<1>3. dc_players' = dc_players /\ fd' = fd /\ name' = name /\ allocated' = allocated
      /\ socket' = socket /\ watched' = watched /\ halt' = halt
    BY DEF unregister, world
<1>4. \A g \in Fds : players'[g] = IF g = f THEN NoPlayer ELSE players[g]
    BY <1>2 DEF unregister, Write
<1>5. \A b \in Actors : step'[b].at \in Labels /\ step[b].p = step'[b].p /\ step[b].fd = step'[b].fd
                     /\ (AtWork(b) <=> AtWork(b)') /\ (Holds(b) <=> Holds(b)')
    BY <1>1 DEF AtWork, Holds, Early, Late, RaceTypeOK
<1>6. RegistryOpen' /\ WatchedNamed'
    BY <1>2, <1>3, <1>4 DEF Core, RegistryOpen, WatchedNamed
<1>7. HoldersDiffer'
    BY <1>5 DEF Core, HoldersDiffer
<1>8. StoreOK'
    BY <1>1, <1>3 DEF Core, StoreOK, Restoring
<1>9. NewUnused'
    BY <1>3, <1>5 DEF Core, NewUnused
<1>10. ReachableOK'
  <2> SUFFICES ASSUME NEW q \in Structs, Reachable(q)', fd[q] # -1
               PROVE  players'[fd[q]] = q \/ \E b \in Actors : WorksOn(b, q)'
    BY <1>3 DEF ReachableOK
  <2>1. fd[q] \in Fds BY DEF RaceTypeOK
  <2>2. Reachable(q) BY <1>1, <1>3 DEF Reachable
  <2>3. players[fd[q]] = q \/ \E b \in Actors : WorksOn(b, q)
    BY <2>2 DEF Core, ReachableOK
  <2>4. ASSUME q = p PROVE WorksOn(a, q)'
    <3> HIDE DEF p
    <3>1. step'[a].p = q /\ step'[a].at = "search" BY <2>4, <1>1
    <3> QED BY <3>1 DEF WorksOn, AtWork
  <2>5. \A b \in Actors : WorksOn(b, q) => WorksOn(b, q)' BY <1>5 DEF WorksOn
  <2>6. CASE players[fd[q]] = q /\ fd[q] = f
    <3>1. q = p BY <2>6, <1>2
    <3> QED BY <3>1, <2>4
  <2>7. CASE players[fd[q]] = q /\ fd[q] # f BY <2>1, <2>7, <1>4
  <2> QED BY <2>3, <2>5, <2>6, <2>7
<1>11. ASSUME NEW b \in Actors PROVE ActorOK(b)'
  <2>1. CASE b = a
    BY <2>1, <1>1, <1>2, <1>3, <1>4 DEF ActorOK, Early, Late
  <2>2. CASE b # a
    <3>0. ActorOK(b) /\ step'[b] = step[b] BY <2>2, <1>1 DEF Core
    <3>1. Holds(b) => step[b].fd # f
      BY <2>2, <1>1 DEF Core, HoldersDiffer, Holds, Early, Late
    <3>2. b = Main /\ step[b].at \in {"named", "replace", "take_out"} => fd[step[b].p] # f
      BY <2>2, <3>0, <1>1, <1>2 DEF ActorOK, NoMeeting, AtWork
    <3>3. b = Main /\ step[b].at \in {"named", "replace", "take_out"} => players'[fd[step[b].p]] = players[fd[step[b].p]]
      BY <3>0, <3>2, <1>4 DEF ActorOK
    <3> QED BY <3>0, <3>1, <3>3, <1>3, <1>4, ActorFrame
  <2> QED BY <2>1, <2>2
<1> QED BY <1>6, <1>7, <1>8, <1>9, <1>10, <1>11 DEF Core

\* A step that changes nothing but where its actor is.
LEMMA QuietStep ==
    ASSUME RaceTypeOK, RaceTypeOK', Core, NEW a \in Actors, ActorOK(a)',
           \A b \in Actors : b # a => step'[b] = step[b],
           UNCHANGED <<tables, world>>,
           step'[a].p \in 0 .. allocated,
           \A b \in Actors : b # a /\ Holds(b) /\ Holds(a)' => step[b].fd # step'[a].fd,
           step[a].at \notin {"replace", "take_out"}, step'[a].at \notin {"replace", "take_out"},
           \A q \in Structs : WorksOn(a, q) => WorksOn(a, q)' \/ fd[q] = -1 \/ players[fd[q]] = q,
           \A q \in Structs : Reachable(q)' => Reachable(q) \/ fd[q] = -1 \/ players[fd[q]] = q
    PROVE  Core'
<1>1. players' = players /\ dc_players' = dc_players /\ fd' = fd /\ name' = name /\ allocated' = allocated
      /\ socket' = socket /\ watched' = watched
    BY DEF tables, world
<1>2. RegistryOpen' /\ WatchedNamed'
    BY <1>1 DEF Core, RegistryOpen, WatchedNamed
<1>3. \A b \in Actors : b # a => (Holds(b)' <=> Holds(b))
    BY DEF Holds
<1>4. HoldersDiffer'
    BY <1>3 DEF Core, HoldersDiffer
<1>5. \A q : Restoring(q)' <=> Restoring(q)
    BY DEF Restoring
<1>6. StoreOK'
  <2>1. CASE a = Main
    BY <2>1, <1>1, <1>5 DEF Core, StoreOK, Restoring
  <2>2. CASE a # Main
    BY <2>2, <1>1, <1>5 DEF Core, StoreOK
  <2> QED BY <2>1, <2>2
<1>7. NewUnused'
  <2> SUFFICES ASSUME NEW q \in Structs, q > allocated
               PROVE  /\ fd[q] = -1 /\ q \notin watched
                      /\ \A i \in StoreSlots : dc_players[i] # q
                      /\ \A b \in Actors : step'[b].p # q
    BY <1>1 DEF NewUnused
  <2>1. step'[a].p # q BY DEF RaceTypeOK
  <2> QED BY <2>1 DEF Core, NewUnused
<1>8. ReachableOK'
    BY <1>1 DEF Core, ReachableOK, WorksOn, AtWork
<1>9. ASSUME NEW b \in Actors PROVE ActorOK(b)'
  <2>1. CASE b = a
    BY <2>1
  <2>2. CASE b # a
    BY <2>2, <1>1, ActorFrame DEF Core
  <2> QED BY <2>1, <2>2
<1> QED BY <1>2, <1>4, <1>6, <1>7, <1>8, <1>9 DEF Core

LEMMA LookupStep ==
    ASSUME RaceTypeOK, RaceTypeOK', Core, lookup_player_by_fd
    PROVE  Core'
<1>0. PICK f \in Fds : players[f] # NoPlayer /\ step' = [step EXCEPT ![Main].at = "found", ![Main].p = players[f]]
    BY DEF lookup_player_by_fd
<1>1. /\ \A b \in Actors : b # Main => step'[b] = step[b]
      /\ step[Main].at = "idle" /\ step'[Main].at = "found" /\ step'[Main].p = players[f]
  <2>1. step \in [Actors -> Locals]
    BY DEF RaceTypeOK
  <2>2. \A b \in Actors : b # Main => step'[b] = step[b] BY <1>0, <2>1
  <2>3. step'[Main].at = "found" BY <1>0, <2>1
  <2>4. step'[Main].p = players[f] BY <1>0, <2>1
  <2> QED BY <2>2, <2>3, <2>4 DEF lookup_player_by_fd, At
<1>2. players[f] \in Structs /\ fd[players[f]] = f /\ players[f] \in 0 .. allocated
    <2>1. players[f] \in Structs /\ fd[players[f]] = f BY <1>0 DEF Core, RegistryOpen, RaceTypeOK
    <2> QED BY <2>1, InUse DEF Core
<1>3. UNCHANGED <<tables, world>> BY DEF lookup_player_by_fd
<1>4. ActorOK(Main)' BY <1>1 DEF ActorOK, Early, Late
<1>5. ~Holds(Main)' BY <1>1 DEF Holds, Early, Late
<1>6. \A q \in Structs : ~WorksOn(Main, q) BY <1>1 DEF WorksOn, AtWork
<1>7. \A q \in Structs : Reachable(q)' => Reachable(q) \/ players[fd[q]] = q
    BY <1>1, <1>2, <1>3 DEF Reachable, world
<1> QED BY <1>1, <1>2, <1>3, <1>4, <1>5, <1>6, <1>7, QuietStep

LEMMA KeepaliveStep ==
    ASSUME RaceTypeOK, RaceTypeOK', Core, NEW p \in Structs, keepalive_timeout(p)
    PROVE  Core'
<1>1. /\ \A b \in Actors : b # p => step'[b] = step[b]
      /\ step[p].at = "idle" /\ step'[p].at = "found" /\ step'[p].p = p /\ p \in watched
    BY DEF RaceTypeOK, keepalive_timeout, At
<1>2. p \in 0 .. allocated
    BY <1>1, InUse DEF Core
<1>3. UNCHANGED <<tables, world>> BY DEF keepalive_timeout
<1>4. ActorOK(p)' BY <1>1, <1>3 DEF ActorOK, Early, Late, world
<1>5. ~Holds(p)' BY <1>1 DEF Holds, Early, Late
<1>6. \A q \in Structs : ~WorksOn(p, q) BY <1>1 DEF WorksOn, AtWork
<1>7. \A q \in Structs : Reachable(q)' => Reachable(q)
    BY <1>1, <1>3 DEF Reachable, world
<1> QED BY <1>1, <1>2, <1>3, <1>4, <1>5, <1>6, <1>7, QuietStep

LEMMA ReadFdStep ==
    ASSUME RaceTypeOK, RaceTypeOK', NoMeeting', Core, NEW a \in Actors, read_fd(a)
    PROVE  Core'
<1> DEFINE p == step[a].p  f == fd[p]
<1>1. step[a].at = "found" /\ p \in Structs /\ f \in Fds \cup {-1} /\ Reachable(p) /\ p \in 0 .. allocated
  <2>1. step[a].at = "found" /\ p \in Structs /\ f \in Fds \cup {-1} BY DEF read_fd, At, RaceTypeOK
  <2>2. Reachable(p) BY <2>1 DEF Core, ActorOK, Reachable
  <2> QED BY <2>1, <2>2, InUse DEF Core
<1>2. UNCHANGED <<tables, world>> BY DEF read_fd
<1>3. \A q \in Structs : ~WorksOn(a, q) BY <1>1 DEF WorksOn, AtWork
<1>4. CASE f = -1
  <2>1. Return(a) BY <1>4 DEF read_fd
  <2>2. /\ \A b \in Actors : b # a => step'[b] = step[b]
        /\ step'[a].at = "idle" /\ step'[a].p = 0
    BY <2>1, ReturnFields
  <2>3. ActorOK(a)' /\ ~Holds(a)' BY <2>2 DEF ActorOK, Holds, Early, Late
  <2>4. \A q \in Structs : Reachable(q)' => Reachable(q) BY <2>2, <1>2 DEF Reachable, world
  <2> QED BY <1>1, <1>2, <1>3, <2>2, <2>3, <2>4, QuietStep, 0 \in 0 .. allocated DEF RaceTypeOK
<1>5. CASE f \in Fds
  <2>1. /\ \A b \in Actors : b # a => step'[b] = step[b]
        /\ step'[a].at = "validate" /\ step'[a].p = p /\ step'[a].fd = f /\ step'[a].life = socket[f].life
    <3>1. ~(f < 0) BY <1>5, FdsNat
    <3>2. step' = [step EXCEPT ![a].at = "validate", ![a].fd = f, ![a].life = socket[f].life]
      BY <3>1 DEF read_fd
    <3>3. step \in [Actors -> Locals]
      BY DEF RaceTypeOK
    <3>4. \A b \in Actors : b # a => step'[b] = step[b] BY <3>2, <3>3
    <3>5. step'[a].at = "validate" /\ step'[a].p = p BY <3>2, <3>3
    <3>6. step'[a].fd = f BY <3>2, <3>3
    <3>7. step'[a].life = socket[f].life BY <3>2, <3>3
    <3> QED BY <3>4, <3>5, <3>6, <3>7
  <2>2. \A b \in Actors : ~WorksOn(b, p)
    <3>1. AtWork(a)' BY <2>1 DEF AtWork
    <3>2. \A b \in Actors : WorksOn(b, p) => b # a /\ AtWork(b)' /\ step'[b].p = p
      BY <1>1, <1>3, <2>1 DEF WorksOn, AtWork
    <3> QED BY <3>1, <3>2, <2>1 DEF NoMeeting
  <2>3. players[f] = p /\ socket[f].open
    <3>1. p \in Structs /\ f # -1 BY <1>1, <1>5, FdsNat
    <3>2. players[f] = p BY <1>1, <2>2, <3>1 DEF Core, ReachableOK
    <3>3. players[f] # NoPlayer BY <3>1, <3>2
    <3> QED BY <1>5, <3>2, <3>3 DEF Core, RegistryOpen
  <2>4. ActorOK(a)'
    BY <1>1, <1>2, <1>5, <2>1, <2>3 DEF Core, ActorOK, Early, Late, tables, world
  <2>5. ASSUME NEW b \in Actors, b # a, Holds(b), step[b].fd = f PROVE FALSE
    BY <1>1, <2>2, <2>3, <2>5 DEF Core, ActorOK, Holds, WorksOn, AtWork, Early, Late
  <2>6. \A q \in Structs : Reachable(q)' => Reachable(q) BY <2>1, <1>2 DEF Reachable, world
  <2> QED BY <1>1, <1>2, <1>3, <2>1, <2>4, <2>5, <2>6, QuietStep
<1> QED BY <1>1, <1>4, <1>5

LEMMA ValidateStep ==
    ASSUME RaceTypeOK, RaceTypeOK', Core, NEW a \in Actors, validate(a)
    PROVE  Core'
<1> DEFINE p == step[a].p
<1>1. step[a].at = "validate" /\ p \in Structs /\ fd[p] \in Fds
    BY DEF validate, At, RaceTypeOK, Core, ActorOK, Early
<1>2. Goto(a, "unregister")
  <2>1. ~(fd[p] < 0) BY <1>1, FdsNat
  <2> QED BY <2>1 DEF validate
<1>3. /\ \A b \in Actors : b # a => step'[b] = step[b]
      /\ step'[a].at = "unregister" /\ step'[a].p = p /\ step'[a].fd = step[a].fd
      /\ step'[a].life = step[a].life
    BY <1>2, GotoFields DEF Labels, Early
<1>4. UNCHANGED <<tables, world>> BY DEF validate
<1>5. ActorOK(a)' BY <1>1, <1>3, <1>4 DEF Core, ActorOK, Early, Late, tables, world
<1>6. p \in 0 .. allocated BY <1>1, InUse DEF Core
<1>7. \A b \in Actors : b # a /\ Holds(b) => step[b].fd # step'[a].fd
    BY <1>1, <1>3 DEF Core, HoldersDiffer, Holds, Early
<1>8. \A q \in Structs : WorksOn(a, q) => WorksOn(a, q)' BY <1>3 DEF WorksOn, AtWork
<1>9. \A q \in Structs : Reachable(q)' => Reachable(q) BY <1>3, <1>4 DEF Reachable, world
<1> QED BY <1>1, <1>3, <1>4, <1>5, <1>6, <1>7, <1>8, <1>9, QuietStep

LEMMA SearchStep ==
    ASSUME RaceTypeOK, RaceTypeOK', Core, NEW a \in Actors, search(a), step'[a].at # "close"
    PROVE  Core'
<1> DEFINE p == step[a].p
<1>1. step[a].at = "search" /\ p \in Structs
    BY DEF search, At, RaceTypeOK
<1>2. /\ \A b \in Actors : b # a => step'[b] = step[b]
      /\ step'[a].at = "away" /\ step'[a].p = p /\ step'[a].fd = step[a].fd
      /\ step'[a].life = step[a].life
  <2>1. ~Goto(a, "close") BY GotoFields DEF Labels, Late
  <2>2. PICK i \in StoreSlots : step' = [step EXCEPT ![a].at = "away", ![a].slot = i]
    BY <2>1 DEF search, Least
  <2> QED BY <2>2 DEF RaceTypeOK
<1>3. UNCHANGED <<tables, world>> BY DEF search
<1>4. ActorOK(a)' BY <1>1, <1>2, <1>3 DEF Core, ActorOK, Early, Late, tables, world
<1>5. p \in 0 .. allocated BY <1>1, InUse DEF Core
<1>6. \A b \in Actors : b # a /\ Holds(b) => step[b].fd # step'[a].fd
    BY <1>1, <1>2 DEF Core, HoldersDiffer, Holds, Late
<1>7. \A q \in Structs : WorksOn(a, q) => WorksOn(a, q)' BY <1>2 DEF WorksOn, AtWork
<1>8. \A q \in Structs : Reachable(q)' => Reachable(q) BY <1>2, <1>3 DEF Reachable, world
<1> QED BY <1>1, <1>2, <1>3, <1>4, <1>5, <1>6, <1>7, <1>8, QuietStep

LEMMA AwayStep ==
    ASSUME RaceTypeOK, RaceTypeOK', NoMeeting, Core, NEW a \in Actors, away(a)
    PROVE  Core'
<1> DEFINE p == step[a].p  f == step[a].fd
<1>1. /\ \A b \in Actors : b # a => step'[b] = step[b]
      /\ step[a].at = "away" /\ step'[a].at = "store"
      /\ step'[a].p = p /\ step'[a].fd = f /\ step'[a].life = step[a].life /\ step'[a].slot = step[a].slot
    BY GotoFields DEF away, At, Labels, Late
<1>2. /\ p \in Structs /\ f \in Fds /\ fd[p] = f /\ players[f] = NoPlayer
      /\ socket[f].open /\ socket[f].life = step[a].life
      /\ a # Main => a = p /\ p \in watched
    BY <1>1 DEF RaceTypeOK, Core, ActorOK, Late
<1>3. dc_players' = dc_players /\ players' = players /\ name' = name /\ allocated' = allocated
      /\ socket' = socket /\ watched' = watched
    BY DEF away, world
<1>4. \A q \in Structs : fd'[q] = IF q = p THEN -1 ELSE fd[q]
    BY <1>2 DEF away, RaceTypeOK
<1>5. \A b \in Actors : step[b].p = step'[b].p /\ step[b].fd = step'[b].fd
                     /\ (AtWork(b) <=> AtWork(b)') /\ (Holds(b) <=> Holds(b)')
    BY <1>1 DEF AtWork, Holds, Early, Late
<1>6. \A b \in Actors : b # a /\ AtWork(b) => step[b].p # p
    BY <1>1 DEF NoMeeting, AtWork
<1>7. RegistryOpen' /\ WatchedNamed'
  <2>1. ASSUME NEW g \in Fds, players[g] # NoPlayer PROVE fd'[players[g]] = g /\ socket[g].open
    <3>1. fd[players[g]] = g /\ socket[g].open /\ players[g] \in Structs
      BY <2>1, TableTypes DEF Core, RegistryOpen
    <3> QED BY <2>1, <3>1, <1>2, <1>4
  <2> QED BY <2>1, <1>3 DEF Core, RegistryOpen, WatchedNamed
<1>8. HoldersDiffer'
    BY <1>5 DEF Core, HoldersDiffer
<1>9. ~Restoring(p)
    BY <1>1, <1>6 DEF Restoring, AtWork
<1>10. \A i \in StoreSlots : dc_players[i] # p
    BY <1>2, <1>9, FdsNat DEF Core, StoreOK
<1>11. StoreOK'
  <2>1. \A q : Restoring(q)' <=> Restoring(q) BY <1>1 DEF Restoring
  <2>2. step'[Main].slot = step[Main].slot BY <1>1
  <2>3. \A i \in StoreSlots : dc_players[i] # NoPlayer => fd'[dc_players[i]] = fd[dc_players[i]]
    BY <1>4, <1>10, TableTypes
  <2> QED BY <2>1, <2>2, <2>3, <1>3 DEF Core, StoreOK
<1>12. NewUnused'
    BY <1>3, <1>4, <1>5 DEF Core, NewUnused
<1>13. ReachableOK'
  <2> SUFFICES ASSUME NEW q \in Structs, Reachable(q)', fd'[q] # -1
               PROVE  (players[fd[q]] = q /\ fd'[q] = fd[q]) \/ \E b \in Actors : WorksOn(b, q)'
    BY <1>3 DEF ReachableOK
  <2>1. q # p /\ fd'[q] = fd[q] BY <1>4
  <2>2. Reachable(q) BY <1>1, <1>3 DEF Reachable
  <2>3. players[fd[q]] = q \/ \E b \in Actors : WorksOn(b, q)
    BY <2>1, <2>2 DEF Core, ReachableOK
  <2> QED BY <2>1, <2>3, <1>5 DEF WorksOn
<1>14. ASSUME NEW b \in Actors PROVE ActorOK(b)'
  <2>1. CASE b = a
    BY <2>1, <1>1, <1>2, <1>3, <1>4, <1>10 DEF ActorOK, Early, Late
  <2>2. CASE b # a
    <3>1. ActorOK(b) /\ step'[b] = step[b] BY <2>2, <1>1 DEF Core
    <3>2. AtWork(b) => fd'[step[b].p] = fd[step[b].p]
      BY <2>2, <1>4, <1>6 DEF RaceTypeOK, AtWork
    <3>3. step[b].at = "login" => fd'[step[b].p] \in {fd[step[b].p], -1}
      BY <1>4 DEF RaceTypeOK
    <3> QED BY <3>1, <3>2, <3>3, <1>3, ActorFrame
  <2> QED BY <2>1, <2>2
<1> QED BY <1>7, <1>8, <1>11, <1>12, <1>13, <1>14 DEF Core

LEMMA StoreStep ==
    ASSUME RaceTypeOK, RaceTypeOK', NoMeeting, Core, NEW a \in Actors, store(a)
    PROVE  Core'
<1> DEFINE p == step[a].p  s == step[a].slot
<1>1. /\ \A b \in Actors : b # a => step'[b] = step[b]
      /\ step[a].at = "store" /\ step'[a].at = "close"
      /\ step'[a].p = p /\ step'[a].fd = step[a].fd /\ step'[a].life = step[a].life /\ step'[a].slot = s
    BY GotoFields DEF store, At, Labels, Late
<1>2. /\ p \in Structs /\ fd[p] = -1 /\ \A i \in StoreSlots : dc_players[i] # p
    BY <1>1 DEF RaceTypeOK, Core, ActorOK, Late
<1>3. fd' = fd /\ players' = players /\ name' = name /\ allocated' = allocated
      /\ socket' = socket /\ watched' = watched
    BY DEF store, world
<1>4. \A i \in StoreSlots : dc_players'[i] = IF i = s THEN p ELSE dc_players[i]
    BY DEF store, RaceTypeOK
<1>5. \A b \in Actors : step[b].p = step'[b].p /\ step[b].fd = step'[b].fd
                     /\ (AtWork(b) <=> AtWork(b)') /\ (Holds(b) <=> Holds(b)')
    BY <1>1 DEF AtWork, Holds, Early, Late
<1>6. \A b \in Actors : b # a /\ AtWork(b) => step[b].p # p
    BY <1>1 DEF NoMeeting, AtWork
<1>7. RegistryOpen' /\ WatchedNamed'
    BY <1>3 DEF Core, RegistryOpen, WatchedNamed
<1>8. HoldersDiffer'
    BY <1>5 DEF Core, HoldersDiffer
<1>9. StoreOK'
  <2>1. \A q : Restoring(q)' <=> Restoring(q) BY <1>1 DEF Restoring
  <2>2. step'[Main].slot = step[Main].slot BY <1>1
  <2>3. ~Restoring(p) BY <1>1, <1>6 DEF Restoring, AtWork
  <2> SUFFICES ASSUME NEW i \in StoreSlots, dc_players'[i] # NoPlayer
               PROVE  /\ fd[dc_players'[i]] = -1 \/ Restoring(dc_players'[i])
                      /\ Restoring(dc_players'[i]) => i = step[Main].slot
                      /\ \A j \in StoreSlots : dc_players'[j] = dc_players'[i] => j = i
    BY <1>3, <2>1, <2>2 DEF StoreOK
  <2>4. CASE i = s
    BY <2>4, <2>3, <1>2, <1>4
  <2>5. CASE i # s
    <3>1. dc_players'[i] = dc_players[i] /\ dc_players[i] # p BY <2>5, <1>2, <1>4
    <3> QED BY <3>1, <1>4 DEF Core, StoreOK
  <2> QED BY <2>4, <2>5
<1>10. NewUnused'
  <2>1. \A q \in Structs : q > allocated => q # p BY DEF Core, NewUnused
  <2> QED BY <2>1, <1>3, <1>4, <1>5 DEF Core, NewUnused
<1>11. ReachableOK'
  <2>1. \A q \in Structs : Reachable(q)' => Reachable(q) BY <1>1, <1>3 DEF Reachable
  <2> QED BY <2>1, <1>3, <1>5 DEF Core, ReachableOK, WorksOn
<1>12. ASSUME NEW b \in Actors PROVE ActorOK(b)'
  <2>1. CASE b = a
    BY <2>1, <1>1, <1>2, <1>3 DEF Core, ActorOK, Early, Late
  <2>2. CASE b # a
    <3>1. ActorOK(b) /\ step'[b] = step[b] BY <2>2, <1>1 DEF Core
    <3>2. step[b].at = "store" => \A i \in StoreSlots : dc_players'[i] \in {dc_players[i], NoPlayer} \/ dc_players'[i] # step[b].p
      BY <2>2, <1>4, <1>6 DEF AtWork
    <3> QED BY <3>1, <3>2, <1>3, ActorFrame
  <2> QED BY <2>1, <2>2
<1> QED BY <1>7, <1>8, <1>9, <1>10, <1>11, <1>12 DEF Core

LEMMA CloseStep ==
    ASSUME RaceTypeOK, RaceTypeOK', Core, NEW a \in Actors, close(a)
    PROVE  Core'
<1> DEFINE p == step[a].p  f == step[a].fd
<1>1. /\ \A b \in Actors : b # a => step'[b] = step[b]
      /\ step[a].at = "close" /\ step'[a].at = "idle" /\ step'[a].p = NoPlayer
    BY ReturnFields DEF close, At
<1>2. p \in Structs /\ f \in Fds /\ players[f] = NoPlayer /\ fd[p] = -1
    BY <1>1 DEF RaceTypeOK, Core, ActorOK, Late
<1>3. fd' = fd /\ players' = players /\ dc_players' = dc_players /\ name' = name /\ allocated' = allocated
      /\ watched' = watched
    BY DEF close, tables
<1>4. \A g \in Fds : g # f => socket'[g] = socket[g]
    BY DEF close, RaceTypeOK
<1>5. RegistryOpen' /\ WatchedNamed'
    BY <1>2, <1>3, <1>4 DEF Core, RegistryOpen, WatchedNamed
<1>6. HoldersDiffer'
  <2>1. \A b \in Actors : Holds(b)' => b # a /\ Holds(b) /\ step'[b] = step[b]
    BY <1>1 DEF Holds, Early, Late
  <2> QED BY <2>1 DEF Core, HoldersDiffer
<1>7. StoreOK'
  <2>1. \A q : Restoring(q)' <=> Restoring(q) BY <1>1 DEF Restoring
  <2>2. \A q : Restoring(q) => step'[Main].slot = step[Main].slot BY <1>1 DEF Restoring
  <2> QED BY <2>1, <2>2, <1>3 DEF Core, StoreOK
<1>8. NewUnused'
  <2>1. \A b \in Actors : step'[b].p = step[b].p \/ step'[b].p = NoPlayer BY <1>1
  <2>2. \A q \in Structs : q # NoPlayer OBVIOUS
  <2> QED BY <2>1, <2>2, <1>3 DEF Core, NewUnused
<1>9. ReachableOK'
  <2> SUFFICES ASSUME NEW q \in Structs, Reachable(q)', fd[q] # -1
               PROVE  players[fd[q]] = q \/ \E b \in Actors : WorksOn(b, q)'
    BY <1>3 DEF ReachableOK
  <2>1. Reachable(q) BY <1>1, <1>3 DEF Reachable
  <2>2. players[fd[q]] = q \/ \E b \in Actors : WorksOn(b, q)
    BY <2>1 DEF Core, ReachableOK
  <2>3. \A b \in Actors : WorksOn(b, q) => WorksOn(b, q)'
    BY <1>1, <1>2 DEF WorksOn, AtWork
  <2> QED BY <2>2, <2>3
<1>10. ASSUME NEW b \in Actors PROVE ActorOK(b)'
  <2>1. CASE b = a
    BY <2>1, <1>1 DEF ActorOK, Early, Late
  <2>2. CASE b # a
    <3>1. ActorOK(b) /\ step'[b] = step[b] BY <2>2, <1>1 DEF Core
    <3>2. Holds(b) => step[b].fd # f
      BY <2>2, <1>1 DEF Core, HoldersDiffer, Holds, Late
    <3> QED BY <3>1, <3>2, <1>3, <1>4, ActorFrame
  <2> QED BY <2>1, <2>2
<1> QED BY <1>5, <1>6, <1>7, <1>8, <1>9, <1>10 DEF Core

LEMMA AcceptStep ==
    ASSUME RaceTypeOK, RaceTypeOK', Core, accept
    PROVE  Core'
<1>1. PICK f \in Least({g \in Fds : ~socket[g].open}) :
         /\ socket' = [socket EXCEPT ![f] = [life |-> @.life + 1, open |-> TRUE]]
         /\ step' = [step EXCEPT ![Main].at = "accepted", ![Main].fd = f]
    BY DEF accept
<1>2. f \in Fds /\ ~socket[f].open
    BY DEF Least
<1>3. /\ \A b \in Actors : b # Main => step'[b] = step[b]
      /\ step[Main].at = "idle" /\ step'[Main].at = "accepted"
      /\ step'[Main].p = step[Main].p /\ step'[Main].fd = f /\ allocated < MaxStructs
  <2>1. step \in [Actors -> Locals]
    BY DEF RaceTypeOK
  <2>2. \A b \in Actors : b # Main => step'[b] = step[b] BY <1>1, <2>1
  <2>3. step'[Main].at = "accepted" /\ step'[Main].p = step[Main].p BY <1>1, <2>1
  <2>4. step'[Main].fd = f BY <1>1, <2>1
  <2> QED BY <2>2, <2>3, <2>4 DEF accept, At
<1>4. fd' = fd /\ players' = players /\ dc_players' = dc_players /\ name' = name /\ allocated' = allocated
      /\ watched' = watched
    BY DEF accept, tables
<1>5. socket'[f].open /\ \A g \in Fds : g # f => socket'[g] = socket[g]
    BY <1>1, <1>2 DEF RaceTypeOK
<1>6. players[f] = NoPlayer
    BY <1>2 DEF Core, RegistryOpen
<1>7. RegistryOpen' /\ WatchedNamed'
    BY <1>4, <1>5 DEF Core, RegistryOpen, WatchedNamed
<1>8. \A b \in Actors : b # Main /\ Holds(b) => step[b].fd # f
  <2>1. ASSUME NEW b \in Actors, b # Main, Holds(b) PROVE socket[step[b].fd].open
    BY <2>1 DEF Core, ActorOK, Holds, Early, Late
  <2> QED BY <2>1, <1>2
<1>9. HoldersDiffer'
  <2>1. \A b \in Actors : b # Main => (Holds(b)' <=> Holds(b)) BY <1>3 DEF Holds
  <2> QED BY <2>1, <1>3, <1>8 DEF Core, HoldersDiffer
<1>10. StoreOK'
    BY <1>3, <1>4 DEF Core, StoreOK, Restoring
<1>11. NewUnused'
  <2>1. \A b \in Actors : step'[b].p = step[b].p BY <1>3
  <2> QED BY <2>1, <1>4 DEF Core, NewUnused
<1>12. ReachableOK'
  <2>1. \A b \in Actors, q \in Structs : WorksOn(b, q)' <=> WorksOn(b, q) BY <1>3 DEF WorksOn, AtWork
  <2>2. \A q \in Structs : Reachable(q)' => Reachable(q) BY <1>3, <1>4 DEF Reachable
  <2> QED BY <2>1, <2>2, <1>4 DEF Core, ReachableOK
<1>13. ASSUME NEW b \in Actors PROVE ActorOK(b)'
  <2>1. CASE b = Main
    BY <2>1, <1>2, <1>3, <1>4, <1>5, <1>6 DEF ActorOK, Early, Late
  <2>2. CASE b # Main
    <3>1. ActorOK(b) /\ step'[b] = step[b] BY <2>2, <1>3 DEF Core
    <3> QED BY <2>2, <3>1, <1>4, <1>5, <1>8, ActorFrame
  <2> QED BY <2>1, <2>2
<1> QED BY <1>7, <1>9, <1>10, <1>11, <1>12, <1>13 DEF Core

LEMMA HandleNewPlayerStep ==
    ASSUME RaceTypeOK, RaceTypeOK', Core, handle_new_player
    PROVE  Core' /\ halt' = halt
<1> DEFINE f == step[Main].fd  p == allocated + 1
<1>1. /\ \A b \in Actors : b # Main => step'[b] = step[b]
      /\ step[Main].at = "accepted" /\ step'[Main].at = "idle" /\ step'[Main].p = NoPlayer
    BY ReturnFields DEF handle_new_player, At
<1>2. f \in Fds /\ players[f] = NoPlayer /\ socket[f].open /\ p \in Structs /\ p > allocated
    BY <1>1 DEF Core, ActorOK, RaceTypeOK
<1>3. /\ players' = Write(f, p) /\ fd' = [fd EXCEPT ![p] = f] /\ allocated' = p
      /\ dc_players' = dc_players /\ halt' = halt /\ name' = name /\ socket' = socket /\ watched' = watched
    BY <1>2 DEF handle_new_player
<1>4. /\ \A g \in Fds : players'[g] = IF g = f THEN p ELSE players[g]
      /\ \A q \in Structs : fd'[q] = IF q = p THEN f ELSE fd[q]
    BY <1>2, <1>3 DEF Write, RaceTypeOK
<1>5. /\ fd[p] = -1 /\ p \notin watched /\ \A i \in StoreSlots : dc_players[i] # p
      /\ \A b \in Actors : step[b].p # p
    BY <1>2 DEF Core, NewUnused
<1>6. \A g \in Fds : players[g] # p
    BY <1>2, <1>5, FdsNat DEF Core, RegistryOpen
<1>7. RegistryOpen' /\ WatchedNamed'
  <2>1. ASSUME NEW g \in Fds, players'[g] # NoPlayer PROVE fd'[players'[g]] = g /\ socket'[g].open
    <3>1. CASE g = f BY <3>1, <1>2, <1>3, <1>4
    <3>2. CASE g # f
      <4>1. players'[g] = players[g] /\ players[g] # p /\ players[g] \in Structs
        BY <3>2, <2>1, <1>4, <1>6, TableTypes
      <4> QED BY <4>1, <2>1, <1>3, <1>4 DEF Core, RegistryOpen
    <3> QED BY <3>1, <3>2
  <2> QED BY <2>1, <1>3 DEF Core, RegistryOpen, WatchedNamed
<1>8. HoldersDiffer'
  <2>1. \A b \in Actors : Holds(b)' => b # Main /\ Holds(b) BY <1>1 DEF Holds, Early, Late
  <2> QED BY <2>1, <1>1 DEF Core, HoldersDiffer
<1>9. StoreOK'
  <2>1. \A q : ~Restoring(q) /\ ~Restoring(q)' BY <1>1 DEF Restoring
  <2>2. \A i \in StoreSlots : dc_players[i] # NoPlayer => fd'[dc_players[i]] = fd[dc_players[i]]
    BY <1>4, <1>5, TableTypes
  <2> QED BY <2>1, <2>2, <1>3 DEF Core, StoreOK
<1>10. NewUnused'
  <2>1. \A q \in Structs : q > allocated' => q > allocated /\ q # p BY <1>3 DEF RaceTypeOK
  <2>2. \A b \in Actors : step'[b].p \in {step[b].p, NoPlayer} BY <1>1
  <2> QED BY <2>1, <2>2, <1>3, <1>4 DEF Core, NewUnused
<1>11. ReachableOK'
  <2> SUFFICES ASSUME NEW q \in Structs, Reachable(q)', fd'[q] # -1
               PROVE  players'[fd'[q]] = q \/ \E b \in Actors : WorksOn(b, q)'
    BY DEF ReachableOK
  <2>1. q # p /\ fd'[q] = fd[q] /\ Reachable(q) BY <1>1, <1>3, <1>4, <1>5 DEF Reachable
  <2>2. fd[q] \in Fds BY <2>1 DEF RaceTypeOK
  <2>3. players[fd[q]] = q \/ \E b \in Actors : WorksOn(b, q)
    BY <2>1 DEF Core, ReachableOK
  <2>4. \A b \in Actors : WorksOn(b, q) => WorksOn(b, q)' BY <1>1 DEF WorksOn, AtWork
  <2>5. CASE players[fd[q]] = q
    <3>1. fd[q] # f BY <2>5, <1>2
    <3> QED BY <3>1, <2>1, <2>2, <2>5, <1>4
  <2> QED BY <2>3, <2>4, <2>5
<1>12. ASSUME NEW b \in Actors PROVE ActorOK(b)'
  <2>1. CASE b = Main
    BY <2>1, <1>1 DEF ActorOK, Early, Late
  <2>2. CASE b # Main
    <3>1. ActorOK(b) /\ step'[b] = step[b] BY <2>2, <1>1 DEF Core
    <3>2. Holds(b) => step[b].fd # f
      BY <2>2, <1>1 DEF Core, HoldersDiffer, Holds
    <3>3. AtWork(b) => fd'[step[b].p] = fd[step[b].p]
      BY <1>4, <1>5 DEF RaceTypeOK, AtWork
    <3> QED BY <2>2, <3>1, <3>2, <3>3, <1>3, <1>4, ActorFrame
  <2> QED BY <2>1, <2>2
<1> QED BY <1>3, <1>7, <1>8, <1>9, <1>10, <1>11, <1>12 DEF Core

LEMMA HelloStep ==
    ASSUME RaceTypeOK, RaceTypeOK', Core, p_hello
    PROVE  Core'
<1>1. PICK f \in Fds, n \in Names :
         /\ players[f] # NoPlayer /\ name[players[f]] = NewPlayer
         /\ name' = [name EXCEPT ![players[f]] = n]
         /\ step' = [step EXCEPT ![Main].at = "named", ![Main].p = players[f]]
    BY DEF p_hello
<1> DEFINE p == players[f]
<1>2. /\ \A b \in Actors : b # Main => step'[b] = step[b]
      /\ step[Main].at = "idle" /\ step'[Main].at = "named" /\ step'[Main].p = p
  <2>1. step \in [Actors -> Locals]
    BY DEF RaceTypeOK
  <2>2. \A b \in Actors : b # Main => step'[b] = step[b] BY <1>1, <2>1
  <2>3. step'[Main].at = "named" BY <1>1, <2>1
  <2>4. step'[Main].p = p BY <1>1, <2>1
  <2> QED BY <2>2, <2>3, <2>4 DEF p_hello, At
<1>3. fd' = fd /\ players' = players /\ dc_players' = dc_players /\ allocated' = allocated
      /\ watched' = watched /\ socket' = socket
    BY DEF p_hello, tables
<1>4. p \in Structs /\ fd[p] = f
    BY <1>1, TableTypes DEF Core, RegistryOpen
<1>5. name'[p] # NewPlayer /\ \A q \in Structs : q # p => name'[q] = name[q]
    BY <1>1, <1>4, RaceAssumption DEF RaceTypeOK
<1>6. p \notin watched
    BY <1>1 DEF Core, WatchedNamed
<1>7. RegistryOpen' /\ WatchedNamed'
    BY <1>3, <1>5, <1>6 DEF Core, RegistryOpen, WatchedNamed, RaceTypeOK
<1>8. HoldersDiffer'
  <2>1. \A b \in Actors : Holds(b)' => b # Main /\ Holds(b) BY <1>2 DEF Holds, Early, Late
  <2> QED BY <2>1, <1>2 DEF Core, HoldersDiffer
<1>9. StoreOK'
    BY <1>2, <1>3 DEF Core, StoreOK, Restoring
<1>10. NewUnused'
  <2>1. \A q \in Structs : q > allocated => q # p BY <1>4, FdsNat DEF Core, NewUnused
  <2> QED BY <2>1, <1>2, <1>3 DEF Core, NewUnused
<1>11. ReachableOK'
  <2>1. \A b \in Actors, q \in Structs : WorksOn(b, q) => WorksOn(b, q)' BY <1>2 DEF WorksOn, AtWork
  <2>2. \A q \in Structs : Reachable(q)' => Reachable(q) BY <1>2, <1>3 DEF Reachable
  <2> QED BY <2>1, <2>2, <1>3 DEF Core, ReachableOK
<1>12. ASSUME NEW b \in Actors PROVE ActorOK(b)'
  <2>1. CASE b = Main
    <3>1. fd'[p] \in Fds /\ players'[fd'[p]] = p /\ p \notin watched' /\ name'[p] # NewPlayer
      BY <1>3, <1>4, <1>5, <1>6
    <3>2. step'[b].at = "named" /\ step'[b].p = p BY <2>1, <1>2
    <3> HIDE DEF p
    <3> QED BY <2>1, <3>1, <3>2 DEF ActorOK, Early, Late
  <2>2. CASE b # Main
    <3>1. ActorOK(b) /\ step'[b] = step[b] BY <2>2, <1>2 DEF Core
    <3> QED BY <2>2, <3>1, <1>3, ActorFrame
  <2> QED BY <2>1, <2>2
<1> QED BY <1>7, <1>8, <1>9, <1>10, <1>11, <1>12 DEF Core

LEMMA LookupDcStep ==
    ASSUME RaceTypeOK, RaceTypeOK', NoMeeting, NoMeeting', Core, lookup_dc_player
    PROVE  Core'
<1> DEFINE p == step[Main].p  f == fd[p]
           found == {i \in StoreSlots : dc_players[i] # NoPlayer /\ name[dc_players[i]] = name[p]}
<1>1. /\ step[Main].at = "named" /\ p \in Structs /\ f \in Fds /\ players[f] = p
      /\ p \notin watched /\ name[p] # NewPlayer
    BY DEF lookup_dc_player, At, Core, ActorOK, RaceTypeOK
<1>2. players' = players /\ dc_players' = dc_players /\ name' = name /\ allocated' = allocated
      /\ watched' = watched /\ socket' = socket
    BY DEF lookup_dc_player, world
<1>3. CASE Goto(Main, "login") /\ fd' = fd
  <2>1. /\ \A b \in Actors : b # Main => step'[b] = step[b]
        /\ step'[Main].at = "login" /\ step'[Main].p = p
    BY <1>3, GotoFields DEF Labels
  <2>2. ActorOK(Main)' BY <1>1, <1>2, <1>3, <2>1 DEF ActorOK, Early, Late
  <2>3. ~Holds(Main)' BY <2>1 DEF Holds, Early, Late
  <2>4. \A q \in Structs : WorksOn(Main, q) => players[fd[q]] = q BY <1>1 DEF WorksOn
  <2>5. \A q \in Structs : Reachable(q)' => Reachable(q) BY <2>1, <1>2 DEF Reachable
  <2>6. p \in 0 .. allocated BY InUse DEF Core
  <2>7. UNCHANGED <<tables, world>> BY <1>3 DEF lookup_dc_player, tables, world
  <2> QED BY <1>1, <2>1, <2>2, <2>3, <2>4, <2>5, <2>6, <2>7, QuietStep
<1>4. ASSUME NEW i \in found,
             fd' = [fd EXCEPT ![dc_players[i]] = f],
             step' = [step EXCEPT ![Main].at = "replace", ![Main].p = dc_players[i], ![Main].slot = i]
      PROVE  Core'
  <2> DEFINE q == dc_players[i]
  <2>1. i \in StoreSlots /\ q # NoPlayer /\ name[q] = name[p] /\ q \in Structs
    BY TableTypes
  <2>2. fd[q] = -1 /\ \A j \in StoreSlots : dc_players[j] = q => j = i
    BY <1>1, <2>1 DEF Core, StoreOK, Restoring
  <2>3. \A r \in Structs : fd'[r] = IF r = q THEN f ELSE fd[r]
    BY <1>4, <2>1 DEF RaceTypeOK
  <2>4. /\ \A b \in Actors : b # Main => step'[b] = step[b]
        /\ step'[Main].at = "replace" /\ step'[Main].p = q /\ step'[Main].slot = i
    <3>1. step \in [Actors -> Locals]
      BY DEF RaceTypeOK
    <3>2. \A b \in Actors : b # Main => step'[b] = step[b] BY <1>4, <3>1
    <3>3. step'[Main].at = "replace" BY <1>4, <3>1
    <3>4. step'[Main].p = q BY <1>4, <3>1
    <3>5. step'[Main].slot = i BY <1>4, <3>1
    <3> QED BY <3>2, <3>3, <3>4, <3>5
  <2> HIDE DEF q
  <2>5. \A g \in Fds : players[g] # q
    BY <2>1, <2>2, FdsNat DEF Core, RegistryOpen
  <2>6. p # q BY <1>1, <2>5
  <2>7. \A b \in Actors : b # Main /\ AtWork(b) => step[b].p # q
    <3>1. AtWork(Main)' BY <2>4 DEF AtWork
    <3>2. \A b \in Actors : b # Main /\ AtWork(b) => AtWork(b)' /\ step'[b].p = step[b].p
      BY <2>4 DEF AtWork
    <3> QED BY <3>1, <3>2, <2>4 DEF NoMeeting
  <2>8. RegistryOpen' /\ WatchedNamed'
    <3>1. ASSUME NEW g \in Fds, players[g] # NoPlayer PROVE fd'[players[g]] = g /\ socket[g].open
      BY <3>1, <2>3, <2>5, TableTypes DEF Core, RegistryOpen
    <3> QED BY <3>1, <1>2 DEF Core, RegistryOpen, WatchedNamed
  <2>9. HoldersDiffer'
    <3>1. \A b \in Actors : Holds(b)' => b # Main /\ Holds(b) BY <2>4 DEF Holds, Early, Late
    <3> QED BY <3>1, <2>4 DEF Core, HoldersDiffer
  <2>10. StoreOK'
    <3>1. \A r : ~Restoring(r) BY <1>1 DEF Restoring
    <3>2. \A r : Restoring(r)' <=> r = q BY <2>4 DEF Restoring
    <3>3. \A j \in StoreSlots : dc_players[j] # NoPlayer /\ dc_players[j] # q => fd'[dc_players[j]] = fd[dc_players[j]]
      BY <2>3, TableTypes
    <3> QED BY <3>1, <3>2, <3>3, <2>2, <2>4, <1>2 DEF Core, StoreOK
  <2>11. NewUnused'
    <3>1. \A r \in Structs : r > allocated => r # q BY <2>1 DEF Core, NewUnused, q
    <3> QED BY <3>1, <1>2, <2>3, <2>4 DEF Core, NewUnused
  <2>12. ReachableOK'
    <3> SUFFICES ASSUME NEW r \in Structs, Reachable(r)', fd'[r] # -1
                 PROVE  players[fd'[r]] = r \/ \E b \in Actors : WorksOn(b, r)'
      BY <1>2 DEF ReachableOK
    <3>1. CASE r = q
      BY <3>1, <2>4 DEF WorksOn, AtWork
    <3>2. CASE r # q
      <4>1. fd'[r] = fd[r] /\ Reachable(r) BY <3>2, <1>2, <2>3, <2>4 DEF Reachable
      <4>2. players[fd[r]] = r \/ \E b \in Actors : WorksOn(b, r)
        BY <4>1 DEF Core, ReachableOK
      <4>3. WorksOn(Main, r) => players[fd[r]] = r BY <1>1 DEF WorksOn
      <4>4. \A b \in Actors : b # Main /\ WorksOn(b, r) => WorksOn(b, r)' BY <2>4 DEF WorksOn, AtWork
      <4> QED BY <4>1, <4>2, <4>3, <4>4
    <3> QED BY <3>1, <3>2
  <2>13. ASSUME NEW b \in Actors PROVE ActorOK(b)'
    <3>1. CASE b = Main
      <4>1. fd'[q] = f /\ name'[q] # NewPlayer BY <1>1, <1>2, <2>1, <2>3 DEF q
      <4>2. players'[f] = p /\ p # NoPlayer /\ p \notin watched' BY <1>1, <1>2
      <4>3. \A g \in Fds : players'[g] # q BY <1>2, <2>5
      <4>4. step'[b].at = "replace" /\ step'[b].p = q BY <3>1, <2>4
      <4> HIDE DEF p, f
      <4> QED BY <3>1, <4>1, <4>2, <4>3, <4>4, <1>1 DEF ActorOK, Early, Late
    <3>2. CASE b # Main
      <4>1. ActorOK(b) /\ step'[b] = step[b] BY <3>2, <2>4 DEF Core
      <4>2. AtWork(b) => fd'[step[b].p] = fd[step[b].p]
        BY <3>2, <2>3, <2>7 DEF RaceTypeOK, AtWork
      <4> QED BY <3>2, <4>1, <4>2, <1>2, ActorFrame
    <3> QED BY <3>1, <3>2
  <2> QED BY <2>8, <2>9, <2>10, <2>11, <2>12, <2>13 DEF Core
<1> QED BY <1>3, <1>4 DEF lookup_dc_player, Least

LEMMA ReplaceStep ==
    ASSUME RaceTypeOK, RaceTypeOK', Core, replace
    PROVE  Core'
<1> DEFINE q == step[Main].p  f == fd[q]
<1>1. /\ \A b \in Actors : b # Main => step'[b] = step[b]
      /\ step[Main].at = "replace" /\ step'[Main].at = "take_out"
      /\ step'[Main].p = q /\ step'[Main].slot = step[Main].slot
    BY GotoFields DEF replace, At, Labels
<1>2. /\ q \in Structs /\ f \in Fds /\ name[q] # NewPlayer
      /\ players[f] # NoPlayer /\ players[f] \notin watched /\ \A g \in Fds : players[g] # q
    BY <1>1 DEF RaceTypeOK, Core, ActorOK
<1>3. fd' = fd /\ dc_players' = dc_players /\ name' = name /\ allocated' = allocated
      /\ socket' = socket /\ watched' = watched
    BY DEF replace, world
<1>4. \A g \in Fds : players'[g] = IF g = f THEN q ELSE players[g]
    BY <1>2 DEF replace, Write
<1>5. RegistryOpen' /\ WatchedNamed'
    BY <1>2, <1>3, <1>4 DEF Core, RegistryOpen, WatchedNamed
<1>6. \A b \in Actors : Holds(b)' <=> b # Main /\ Holds(b)
    BY <1>1 DEF Holds, Early, Late
<1>7. HoldersDiffer'
    BY <1>1, <1>6 DEF Core, HoldersDiffer
<1>8. StoreOK'
  <2>1. \A r : Restoring(r)' <=> Restoring(r) BY <1>1 DEF Restoring
  <2> QED BY <2>1, <1>1, <1>3 DEF Core, StoreOK
<1>9. NewUnused'
  <2>1. \A b \in Actors : step'[b].p = step[b].p BY <1>1
  <2> QED BY <2>1, <1>3 DEF Core, NewUnused
<1>10. ReachableOK'
  <2> SUFFICES ASSUME NEW r \in Structs, Reachable(r)', fd[r] # -1
               PROVE  players'[fd[r]] = r \/ \E b \in Actors : WorksOn(b, r)'
    BY <1>3 DEF ReachableOK
  <2>1. r \in watched /\ fd[r] \in Fds BY <1>1, <1>3 DEF Reachable, RaceTypeOK
  <2>2. players[fd[r]] = r \/ \E b \in Actors : WorksOn(b, r)
    BY <2>1 DEF Core, ReachableOK, Reachable
  <2>3. \A b \in Actors : WorksOn(b, r) => WorksOn(b, r)' BY <1>1 DEF WorksOn, AtWork
  <2>4. players[fd[r]] = r => fd[r] # f BY <2>1, <1>2
  <2> QED BY <2>1, <2>2, <2>3, <2>4, <1>4
<1>11. ASSUME NEW b \in Actors PROVE ActorOK(b)'
  <2>1. CASE b = Main
    <3>1. fd'[q] = f /\ name'[q] # NewPlayer /\ players'[f] = q BY <1>2, <1>3, <1>4
    <3>2. step'[b].at = "take_out" /\ step'[b].p = q BY <2>1, <1>1
    <3> HIDE DEF q, f
    <3> QED BY <2>1, <3>1, <3>2, <1>2 DEF ActorOK, Early, Late
  <2>2. CASE b # Main
    <3>1. ActorOK(b) /\ step'[b] = step[b] BY <2>2, <1>1 DEF Core
    <3>2. Holds(b) => step[b].fd # f
      BY <2>2, <3>1, <1>2 DEF ActorOK, Holds, Early, Late
    <3> QED BY <2>2, <3>1, <3>2, <1>3, <1>4, ActorFrame
  <2> QED BY <2>1, <2>2
<1> QED BY <1>5, <1>7, <1>8, <1>9, <1>10, <1>11 DEF Core

LEMMA TakeOutStep ==
    ASSUME RaceTypeOK, RaceTypeOK', Core, take_out
    PROVE  Core'
<1> DEFINE q == step[Main].p  s == step[Main].slot
<1>1. /\ \A b \in Actors : b # Main => step'[b] = step[b]
      /\ step[Main].at = "take_out" /\ step'[Main].at = "login" /\ step'[Main].p = q
    BY GotoFields DEF take_out, At, Labels
<1>2. q \in Structs /\ fd[q] \in Fds /\ players[fd[q]] = q /\ name[q] # NewPlayer
    BY <1>1 DEF RaceTypeOK, Core, ActorOK
<1>3. fd' = fd /\ players' = players /\ name' = name /\ allocated' = allocated
      /\ socket' = socket /\ watched' = watched
    BY DEF take_out, world
<1>4. \A i \in StoreSlots : dc_players'[i] = IF i = s THEN NoPlayer ELSE dc_players[i]
    BY DEF take_out, RaceTypeOK
<1>5. RegistryOpen' /\ WatchedNamed'
    BY <1>3 DEF Core, RegistryOpen, WatchedNamed
<1>6. HoldersDiffer'
  <2>1. \A b \in Actors : Holds(b)' => b # Main /\ Holds(b) BY <1>1 DEF Holds, Early, Late
  <2> QED BY <2>1, <1>1 DEF Core, HoldersDiffer
<1>7. StoreOK'
  <2>1. \A r : ~Restoring(r)' BY <1>1 DEF Restoring
  <2>2. ASSUME NEW i \in StoreSlots, dc_players'[i] # NoPlayer
        PROVE  i # s /\ dc_players'[i] = dc_players[i] /\ ~Restoring(dc_players[i])
    BY <2>2, <1>4 DEF Core, StoreOK
  <2> QED BY <2>1, <2>2, <1>3 DEF Core, StoreOK
<1>8. NewUnused'
  <2>1. \A b \in Actors : step'[b].p = step[b].p BY <1>1
  <2>2. \A r \in Structs : r # NoPlayer OBVIOUS
  <2> QED BY <2>1, <2>2, <1>3, <1>4 DEF Core, NewUnused
<1>9. ReachableOK'
  <2> SUFFICES ASSUME NEW r \in Structs, Reachable(r)', fd[r] # -1
               PROVE  players[fd[r]] = r \/ \E b \in Actors : WorksOn(b, r)'
    BY <1>3 DEF ReachableOK
  <2>1. Reachable(r) BY <1>1, <1>3 DEF Reachable
  <2>2. players[fd[r]] = r \/ \E b \in Actors : WorksOn(b, r)
    BY <2>1 DEF Core, ReachableOK
  <2>3. \A b \in Actors : b # Main /\ WorksOn(b, r) => WorksOn(b, r)' BY <1>1 DEF WorksOn, AtWork
  <2>4. WorksOn(Main, r) => players[fd[r]] = r BY <1>2 DEF WorksOn
  <2> QED BY <2>2, <2>3, <2>4
<1>10. ASSUME NEW b \in Actors PROVE ActorOK(b)'
  <2>1. CASE b = Main
    <3>1. \A g \in Fds : fd'[q] = g /\ players'[g] # NoPlayer => name'[players'[g]] # NewPlayer
      BY <1>2, <1>3
    <3>2. step'[b].at = "login" /\ step'[b].p = q BY <2>1, <1>1
    <3> HIDE DEF q
    <3> QED BY <2>1, <3>1, <3>2 DEF ActorOK, Early, Late
  <2>2. CASE b # Main
    <3>1. ActorOK(b) /\ step'[b] = step[b] BY <2>2, <1>1 DEF Core
    <3>2. \A i \in StoreSlots : dc_players'[i] \in {dc_players[i], NoPlayer} BY <1>4
    <3> QED BY <2>2, <3>1, <3>2, <1>3, ActorFrame
  <2> QED BY <2>1, <2>2
<1> QED BY <1>5, <1>6, <1>7, <1>8, <1>9, <1>10 DEF Core

LEMMA StartKeepaliveStep ==
    ASSUME RaceTypeOK, RaceTypeOK', Core, start_keepalive
    PROVE  Core'
<1> DEFINE p == step[Main].p
           looked_up == {players[f] : f \in {g \in Fds : g = fd[p]}} \ {NoPlayer}
<1>1. /\ \A b \in Actors : b # Main => step'[b] = step[b]
      /\ step[Main].at = "login" /\ step'[Main].at = "idle" /\ step'[Main].p = NoPlayer
    BY ReturnFields DEF start_keepalive, At
<1>2. fd' = fd /\ players' = players /\ dc_players' = dc_players /\ name' = name /\ allocated' = allocated
      /\ socket' = socket /\ watched' = watched \cup looked_up
    BY DEF start_keepalive, tables
<1>3. ASSUME NEW q \in looked_up
      PROVE  q \in Structs /\ name[q] # NewPlayer /\ fd[q] \in Fds /\ players[fd[q]] = q
  <2>1. PICK g \in Fds : g = fd[p] /\ q = players[g] /\ q # NoPlayer BY <1>3
  <2>2. name[q] # NewPlayer BY <2>1, <1>1 DEF Core, ActorOK
  <2> QED BY <2>1, <2>2, TableTypes DEF Core, RegistryOpen
<1> HIDE DEF looked_up
<1>4. RegistryOpen' /\ WatchedNamed'
    BY <1>2, <1>3 DEF Core, RegistryOpen, WatchedNamed
<1>5. HoldersDiffer'
  <2>1. \A b \in Actors : Holds(b)' => b # Main /\ Holds(b) BY <1>1 DEF Holds, Early, Late
  <2> QED BY <2>1, <1>1 DEF Core, HoldersDiffer
<1>6. StoreOK'
    BY <1>1, <1>2 DEF Core, StoreOK, Restoring
<1>7. NewUnused'
  <2>1. \A b \in Actors : step'[b].p \in {step[b].p, NoPlayer} BY <1>1
  <2>2. \A q \in Structs : q > allocated => q \notin looked_up BY <1>3, FdsNat DEF Core, NewUnused
  <2>3. \A q \in Structs : q # NoPlayer OBVIOUS
  <2> QED BY <2>1, <2>2, <2>3, <1>2 DEF Core, NewUnused
<1>8. ReachableOK'
  <2>1. \A b \in Actors, q \in Structs : WorksOn(b, q) => WorksOn(b, q)' BY <1>1 DEF WorksOn, AtWork
  <2>2. \A q \in Structs : Reachable(q)' => Reachable(q) \/ q \in looked_up BY <1>1, <1>2 DEF Reachable
  <2> QED BY <2>1, <2>2, <1>2, <1>3 DEF Core, ReachableOK
<1>9. ASSUME NEW b \in Actors PROVE ActorOK(b)'
  <2>1. CASE b = Main
    BY <2>1, <1>1 DEF ActorOK, Early, Late
  <2>2. CASE b # Main
    <3>1. ActorOK(b) /\ step'[b] = step[b] BY <2>2, <1>1 DEF Core
    <3> QED BY <2>2, <3>1, <1>2, ActorFrame
  <2> QED BY <2>1, <2>2
<1> QED BY <1>4, <1>5, <1>6, <1>7, <1>8, <1>9 DEF Core

---------------------------------------------------------------------------
\* Types.

\* Assignments to the local variables of one actor, one at a time, ...
LEMMA FieldType ==
    ASSUME NEW s \in [Actors -> Locals], NEW a \in Actors
    PROVE  /\ \A l \in Labels : [s EXCEPT ![a].at = l] \in [Actors -> Locals]
           /\ \A p \in 0 .. MaxStructs : [s EXCEPT ![a].p = p] \in [Actors -> Locals]
           /\ \A f \in Fds : [s EXCEPT ![a].fd = f] \in [Actors -> Locals]
           /\ \A n \in Nat : [s EXCEPT ![a].life = n] \in [Actors -> Locals]
           /\ \A i \in Nat : [s EXCEPT ![a].slot = i] \in [Actors -> Locals]
<1>1. ASSUME NEW l \in Labels PROVE [s EXCEPT ![a].at = l] \in [Actors -> Locals] OBVIOUS
<1>2. ASSUME NEW p \in 0 .. MaxStructs PROVE [s EXCEPT ![a].p = p] \in [Actors -> Locals] OBVIOUS
<1>3. ASSUME NEW f \in Fds PROVE [s EXCEPT ![a].fd = f] \in [Actors -> Locals] OBVIOUS
<1>4. ASSUME NEW n \in Nat PROVE [s EXCEPT ![a].life = n] \in [Actors -> Locals] OBVIOUS
<1>5. ASSUME NEW i \in Nat PROVE [s EXCEPT ![a].slot = i] \in [Actors -> Locals] OBVIOUS
<1> QED BY <1>1, <1>2, <1>3, <1>4, <1>5

\* ... and two at a time.
LEMMA FieldTypes ==
    ASSUME NEW s \in [Actors -> Locals], NEW a \in Actors, NEW l \in Labels
    PROVE  /\ \A i \in Nat : [s EXCEPT ![a].at = l, ![a].slot = i] \in [Actors -> Locals]
           /\ \A f \in Fds : [s EXCEPT ![a].at = l, ![a].fd = f] \in [Actors -> Locals]
           /\ \A p \in 0 .. MaxStructs : [s EXCEPT ![a].at = l, ![a].p = p] \in [Actors -> Locals]
<1> DEFINE t == [s EXCEPT ![a].at = l]
<1>1. t \in [Actors -> Locals] BY FieldType
<1>2. \A i : [s EXCEPT ![a].at = l, ![a].slot = i] = [t EXCEPT ![a].slot = i] OBVIOUS
<1>3. \A f : [s EXCEPT ![a].at = l, ![a].fd = f] = [t EXCEPT ![a].fd = f] OBVIOUS
<1>4. \A p : [s EXCEPT ![a].at = l, ![a].p = p] = [t EXCEPT ![a].p = p] OBVIOUS
<1> HIDE DEF t
<1> HIDE DEF Locals
<1>5. \A i \in Nat : [s EXCEPT ![a].at = l, ![a].slot = i] \in [Actors -> Locals] BY <1>1, <1>2, FieldType
<1>6. \A f \in Fds : [s EXCEPT ![a].at = l, ![a].fd = f] \in [Actors -> Locals] BY <1>1, <1>3, FieldType
<1>7. \A p \in 0 .. MaxStructs : [s EXCEPT ![a].at = l, ![a].p = p] \in [Actors -> Locals] BY <1>1, <1>4, FieldType
<1> QED BY <1>5, <1>6, <1>7

LEMMA GotoType ==
    ASSUME RaceTypeOK, NEW a \in Actors, NEW l \in Labels, Goto(a, l), step[a].p \in Structs, l # "accepted"
    PROVE  /\ step' \in [Actors -> Locals]
           /\ \A b \in Actors : step'[b].at \notin {"idle", "accepted"} => step'[b].p \in Structs
           /\ step'[Main].at = "accepted" => step[Main].at = "accepted"
<1>1. step' \in [Actors -> Locals]
    BY DEF RaceTypeOK, Goto, Locals
<1> QED BY <1>1, GotoFields DEF RaceTypeOK

LEMMA ReturnType ==
    ASSUME RaceTypeOK, NEW a \in Actors, Return(a)
    PROVE  /\ step' \in [Actors -> Locals]
           /\ \A b \in Actors : step'[b].at \notin {"idle", "accepted"} => step'[b].p \in Structs
           /\ step'[Main].at = "accepted" => a # Main /\ step[Main].at = "accepted"
<1>1. step' \in [Actors -> Locals]
    BY DEF RaceTypeOK, Return, Idle, Locals, Labels
<1> QED BY <1>1, ReturnFields DEF RaceTypeOK

LEMMA EnterType ==
    ASSUME RaceTypeOK, NEW a \in Actors, \A b \in Actors : b # a => step'[b] = step[b],
           step' \in [Actors -> Locals],
           step'[a].at \notin {"idle", "accepted"}, step'[a].p \in Structs
    PROVE  /\ \A b \in Actors : step'[b].at \notin {"idle", "accepted"} => step'[b].p \in Structs
           /\ step'[Main].at = "accepted" => step[Main].at = "accepted"
BY DEF RaceTypeOK

LEMMA DisconnectType ==
    ASSUME RaceTypeOK, NEW a \in Actors, disconnect(a)
    PROVE  RaceTypeOK'
<1> DEFINE p == step[a].p
<1>1. CASE read_fd(a)
  <2>1. p \in Structs /\ fd[p] \in Fds \cup {-1} BY <1>1 DEF read_fd, At, RaceTypeOK
  <2>2. CASE Return(a)
    BY <2>2, <1>1, ReturnType DEF read_fd, tables, world, RaceTypeOK
  <2>3. CASE ~(fd[p] < 0)
    <3>1. step' = [step EXCEPT ![a].at = "validate", ![a].fd = fd[p], ![a].life = socket[fd[p]].life]
      BY <2>3, <1>1 DEF read_fd
    <3>2. fd[p] \in Fds BY <2>1, <2>3
    <3>3. socket[fd[p]].life \in Nat BY <3>2 DEF RaceTypeOK
    <3>4. step' \in [Actors -> Locals]
      <4>1. "validate" \in Labels /\ step \in [Actors -> Locals] BY DEF RaceTypeOK, Labels, Early
      <4> DEFINE t == [step EXCEPT ![a].at = "validate", ![a].fd = fd[p]]
      <4>2. t \in [Actors -> Locals]
        BY Zenon, <4>1, <3>2, FieldTypes
      <4>3. step' = [t EXCEPT ![a].life = socket[fd[p]].life]
        BY <3>1
      <4> HIDE DEF t
      <4> QED BY Zenon, <4>2, <4>3, <3>3, FieldType
    <3>5. \A b \in Actors : b # a => step'[b] = step[b] BY <3>1 DEF RaceTypeOK
    <3>6. step'[a].at = "validate" /\ step'[a].p = p BY <3>1 DEF RaceTypeOK
    <3> QED BY <2>1, <3>4, <3>5, <3>6, <1>1, EnterType DEF read_fd, tables, world, RaceTypeOK
  <2> QED BY <2>2, <2>3, <1>1 DEF read_fd
<1>2. CASE validate(a)
  <2>1. p \in Structs BY <1>2 DEF validate, At, RaceTypeOK
  <2>2. PICK l \in {"close", "unregister"} : Goto(a, l) BY <1>2 DEF validate
  <2> QED BY <2>1, <2>2, <1>2, GotoType DEF validate, tables, world, RaceTypeOK, Labels, Early, Late
<1>3. CASE unregister(a)
  <2>1. p \in Structs BY <1>3 DEF unregister, At, RaceTypeOK
  <2>2. players' \in [Fds -> 0 .. MaxStructs] BY <1>3 DEF unregister, Write, RaceTypeOK
  <2> QED BY <2>1, <2>2, <1>3, GotoType DEF unregister, world, RaceTypeOK, Labels, Late
<1>4. CASE search(a)
  <2>1. p \in Structs BY <1>4 DEF search, At, RaceTypeOK
  <2>2. CASE Goto(a, "close")
    BY <2>1, <2>2, <1>4, GotoType DEF search, tables, world, RaceTypeOK, Labels, Late
  <2>3. ASSUME NEW i \in StoreSlots, step' = [step EXCEPT ![a].at = "away", ![a].slot = i]
        PROVE  RaceTypeOK'
    <3>1. i \in Nat BY RaceAssumption
    <3>2. step' \in [Actors -> Locals]
      <4>1. "away" \in Labels /\ step \in [Actors -> Locals] BY DEF RaceTypeOK, Labels, Late
      <4>2. [step EXCEPT ![a].at = "away", ![a].slot = i] \in [Actors -> Locals]
        BY Zenon, <4>1, <3>1, FieldTypes
      <4> QED BY Zenon, <4>2, <2>3
    <3>3. \A b \in Actors : b # a => step'[b] = step[b] BY <2>3 DEF RaceTypeOK
    <3>4. step'[a].at = "away" /\ step'[a].p = p BY <2>3 DEF RaceTypeOK
    <3> QED BY <2>1, <3>2, <3>3, <3>4, <1>4, EnterType DEF search, tables, world, RaceTypeOK
  <2> QED BY <2>2, <2>3, <1>4 DEF search, Least
<1>5. CASE away(a)
  <2>1. p \in Structs BY <1>5 DEF away, At, RaceTypeOK
  <2>2. fd' \in [Structs -> Fds \cup {-1}] BY <1>5 DEF away, RaceTypeOK
  <2> QED BY <2>1, <2>2, <1>5, GotoType DEF away, world, RaceTypeOK, Labels, Late
<1>6. CASE store(a)
  <2>1. p \in Structs BY <1>6 DEF store, At, RaceTypeOK
  <2>2. dc_players' \in [StoreSlots -> 0 .. MaxStructs]
    <3>1. dc_players' = [dc_players EXCEPT ![step[a].slot] = p] /\ p \in 0 .. MaxStructs BY <1>6, <2>1 DEF store
    <3> HIDE DEF p
    <3> QED BY <3>1 DEF RaceTypeOK
  <2> QED BY <2>1, <2>2, <1>6, GotoType DEF store, world, RaceTypeOK, Labels, Late
<1>7. CASE close(a)
  <2>1. socket' \in [Fds -> [life : Nat, open : BOOLEAN]] BY <1>7 DEF close, RaceTypeOK
  <2> QED BY <2>1, <1>7, ReturnType DEF close, tables, RaceTypeOK
<1> QED BY <1>1, <1>2, <1>3, <1>4, <1>5, <1>6, <1>7 DEF disconnect

\* The main thread's own statements.
LEMMA MainType ==
    ASSUME RaceTypeOK,
           lookup_player_by_fd \/ accept \/ handle_new_player \/ p_hello
              \/ lookup_dc_player \/ replace \/ take_out \/ start_keepalive
    PROVE  RaceTypeOK'
<1> DEFINE p == step[Main].p
<1>0. Main \in Actors /\ step \in [Actors -> Locals]
    BY DEF RaceTypeOK
<1>1. CASE lookup_player_by_fd
  <2>1. PICK f \in Fds : players[f] # NoPlayer
                         /\ step' = [step EXCEPT ![Main].at = "found", ![Main].p = players[f]]
    BY <1>1 DEF lookup_player_by_fd
  <2>2. players[f] \in Structs /\ players[f] \in 0 .. MaxStructs BY <2>1 DEF RaceTypeOK
  <2>3. "found" \in Labels BY DEF Labels
  <2>4. step' \in [Actors -> Locals] BY <1>0, <2>1, <2>2, <2>3, FieldTypes
  <2>5. \A b \in Actors : b # Main => step'[b] = step[b] BY <1>0, <2>1
  <2>6. step'[Main].at = "found" BY <1>0, <2>1
  <2>7. step'[Main].p = players[f] BY <1>0, <2>1
  <2> QED BY <2>2, <2>4, <2>5, <2>6, <2>7, <1>0, <1>1, EnterType DEF lookup_player_by_fd, tables, world, RaceTypeOK
<1>2. CASE accept
  <2>1. PICK f \in Least({g \in Fds : ~socket[g].open}) :
           /\ socket' = [socket EXCEPT ![f] = [life |-> @.life + 1, open |-> TRUE]]
           /\ step' = [step EXCEPT ![Main].at = "accepted", ![Main].fd = f]
    BY <1>2 DEF accept
  <2>2. f \in Fds BY DEF Least
  <2>3. socket' \in [Fds -> [life : Nat, open : BOOLEAN]] BY <2>1, <2>2 DEF RaceTypeOK
  <2>4. "accepted" \in Labels BY DEF Labels
  <2>5. step' \in [Actors -> Locals] BY <1>0, <2>1, <2>2, <2>4, FieldTypes
  <2>6. \A b \in Actors : b # Main => step'[b] = step[b] BY <1>0, <2>1
  <2>7. step'[Main].at = "accepted" BY <1>0, <2>1
  <2>8. \A b \in Actors : step'[b].at \notin {"idle", "accepted"} => step'[b].p \in Structs
    BY <2>6, <2>7 DEF RaceTypeOK
  <2> QED BY <2>3, <2>5, <2>8, <1>2 DEF accept, tables, RaceTypeOK
<1>3. CASE handle_new_player
  <2>1. allocated < MaxStructs /\ step[Main].fd \in Fds \cup {-1}
    BY <1>3 DEF handle_new_player, At, RaceTypeOK
  <2>2. Return(Main) BY <1>3 DEF handle_new_player
  <2>3. CASE halt' = TRUE /\ UNCHANGED <<tables, allocated>>
    BY <2>2, <2>3, <1>0, <1>3, ReturnType DEF handle_new_player, tables, RaceTypeOK
  <2>4. CASE /\ players' = Write(step[Main].fd, allocated + 1)
             /\ fd' = [fd EXCEPT ![allocated + 1] = step[Main].fd] /\ allocated' = allocated + 1
             /\ UNCHANGED <<dc_players, halt>>
    <3>1. allocated + 1 \in 0 .. MaxStructs BY <2>1 DEF RaceTypeOK
    <3>2. players' \in [Fds -> 0 .. MaxStructs] BY <2>4, <3>1 DEF Write, RaceTypeOK
    <3>3. fd' \in [Structs -> Fds \cup {-1}] BY <2>1, <2>4 DEF RaceTypeOK
    <3> QED BY <2>2, <2>4, <3>1, <3>2, <3>3, <1>0, <1>3, ReturnType DEF handle_new_player, RaceTypeOK
  <2> QED BY <2>3, <2>4, <1>3 DEF handle_new_player
<1>4. CASE p_hello
  <2>1. PICK f \in Fds, n \in Names :
           /\ players[f] # NoPlayer
           /\ name' = [name EXCEPT ![players[f]] = n]
           /\ step' = [step EXCEPT ![Main].at = "named", ![Main].p = players[f]]
    BY <1>4 DEF p_hello
  <2>2. players[f] \in Structs /\ players[f] \in 0 .. MaxStructs BY <2>1 DEF RaceTypeOK
  <2>3. name' \in [Structs -> Names \cup {NewPlayer}] BY <2>1, <2>2 DEF RaceTypeOK
  <2>4. "named" \in Labels BY DEF Labels
  <2>5. step' \in [Actors -> Locals] BY <1>0, <2>1, <2>2, <2>4, FieldTypes
  <2>6. \A b \in Actors : b # Main => step'[b] = step[b] BY <1>0, <2>1
  <2>7. step'[Main].at = "named" BY <1>0, <2>1
  <2>8. step'[Main].p = players[f] BY <1>0, <2>1
  <2> QED BY <2>2, <2>3, <2>5, <2>6, <2>7, <2>8, <1>0, <1>4, EnterType DEF p_hello, tables, RaceTypeOK
<1>5. CASE lookup_dc_player
  <2>1. p \in Structs /\ fd[p] \in Fds \cup {-1} BY <1>5 DEF lookup_dc_player, At, RaceTypeOK
  <2>2. CASE Goto(Main, "login") /\ UNCHANGED fd
    BY <2>1, <2>2, <1>0, <1>5, GotoType DEF lookup_dc_player, world, RaceTypeOK, Labels
  <2>3. ASSUME NEW i \in StoreSlots, dc_players[i] # NoPlayer,
               fd' = [fd EXCEPT ![dc_players[i]] = fd[p]],
               step' = [step EXCEPT ![Main].at = "replace", ![Main].p = dc_players[i], ![Main].slot = i]
        PROVE  RaceTypeOK'
    <3>1. i \in Nat /\ dc_players[i] \in Structs /\ dc_players[i] \in 0 .. MaxStructs
      BY <2>3, RaceAssumption DEF RaceTypeOK
    <3>2. fd' \in [Structs -> Fds \cup {-1}] BY <2>1, <2>3 DEF RaceTypeOK
    <3>3. "replace" \in Labels BY DEF Labels
    <3>4. step' \in [Actors -> Locals]
      <4> DEFINE t == [step EXCEPT ![Main].at = "replace", ![Main].p = dc_players[i]]
      <4>1. t \in [Actors -> Locals]
        BY Zenon, <1>0, <3>1, <3>3, FieldTypes
      <4>2. step' = [t EXCEPT ![Main].slot = i]
        BY <2>3
      <4> HIDE DEF t
      <4> QED BY Zenon, <1>0, <4>1, <4>2, <3>1, FieldType
    <3>5. \A b \in Actors : b # Main => step'[b] = step[b] BY <1>0, <2>3
    <3>6. step'[Main].at = "replace" BY <1>0, <2>3
    <3>7. step'[Main].p = dc_players[i] BY <1>0, <2>3
    <3> QED BY <3>1, <3>2, <3>4, <3>5, <3>6, <3>7, <1>0, <1>5, EnterType DEF lookup_dc_player, world, RaceTypeOK
  <2> QED BY <2>2, <2>3, <1>5 DEF lookup_dc_player, Least
<1>6. CASE replace
  <2>1. p \in Structs /\ p \in 0 .. MaxStructs BY <1>6 DEF replace, At, RaceTypeOK
  <2>2. players' \in [Fds -> 0 .. MaxStructs] BY <2>1, <1>6 DEF replace, Write, RaceTypeOK
  <2> QED BY <2>1, <2>2, <1>0, <1>6, GotoType DEF replace, world, RaceTypeOK, Labels
<1>7. CASE take_out
  <2>1. p \in Structs BY <1>7 DEF take_out, At, RaceTypeOK
  <2>2. dc_players' = [dc_players EXCEPT ![step[Main].slot] = NoPlayer] BY <1>7 DEF take_out
  <2>3. NoPlayer \in 0 .. MaxStructs /\ dc_players \in [StoreSlots -> 0 .. MaxStructs]
    BY RaceAssumption DEF RaceTypeOK
  <2>4. dc_players' \in [StoreSlots -> 0 .. MaxStructs] BY <2>2, <2>3
  <2> QED BY <2>1, <2>4, <1>0, <1>7, GotoType DEF take_out, world, RaceTypeOK, Labels
<1>8. CASE start_keepalive
  <2>1. watched' = watched \cup ({players[f] : f \in {g \in Fds : g = fd[p]}} \ {NoPlayer})
    BY <1>8 DEF start_keepalive
  <2>2. watched' \subseteq Structs
    <3> SUFFICES ASSUME NEW q \in watched' PROVE q \in Structs
      OBVIOUS
    <3>1. CASE q \in watched BY <3>1 DEF RaceTypeOK
    <3>2. CASE q \notin watched
      <4>1. \E f \in Fds : q = players[f] /\ q # NoPlayer BY <3>2, <2>1
      <4> QED BY <4>1, TableTypes
    <3> QED BY <3>1, <3>2
  <2> QED BY <2>2, <1>0, <1>8, ReturnType DEF start_keepalive, tables, RaceTypeOK
<1> QED BY <1>1, <1>2, <1>3, <1>4, <1>5, <1>6, <1>7, <1>8

LEMMA KeepaliveType ==
    ASSUME RaceTypeOK, NEW p \in Structs, keepalive_timeout(p)
    PROVE  RaceTypeOK'
<1>1. step' = [step EXCEPT ![p].at = "found", ![p].p = p]
    BY DEF keepalive_timeout
<1>2. p \in Actors /\ p \in 0 .. MaxStructs /\ step \in [Actors -> Locals] /\ "found" \in Labels
    BY DEF RaceTypeOK, Labels
<1>3. step' \in [Actors -> Locals]
  <2>1. [step EXCEPT ![p].at = "found", ![p].p = p] \in [Actors -> Locals] BY Zenon, <1>2, FieldTypes
  <2> QED BY Zenon, <2>1, <1>1
<1>4. \A b \in Actors : b # p => step'[b] = step[b] BY <1>1, <1>2
<1>5. step'[p].at = "found" BY <1>1, <1>2
<1>6. step'[p].p = p BY <1>1, <1>2
<1>7. /\ \A b \in Actors : step'[b].at \notin {"idle", "accepted"} => step'[b].p \in Structs
      /\ step'[Main].at = "accepted" => step[Main].at = "accepted"
    BY <1>2, <1>3, <1>4, <1>5, <1>6, EnterType
<1> QED BY <1>3, <1>7 DEF keepalive_timeout, tables, world, RaceTypeOK

---------------------------------------------------------------------------
\* The inductive step.

LEMMA CodeType ==
    ASSUME RaceTypeOK, Code
    PROVE  RaceTypeOK'
BY MainType, KeepaliveType, DisconnectType DEF Code

\* Only finding a registered descriptor stops the server.
LEMMA HaltUnchanged ==
    ASSUME Code, ~handle_new_player
    PROVE  halt' = halt
<1>1. CASE \E a \in Actors : disconnect(a)
    BY <1>1 DEF disconnect, read_fd, validate, unregister, search, away, store, close, tables, world
<1>2. CASE lookup_player_by_fd \/ \E p \in Structs : keepalive_timeout(p)
    BY <1>2 DEF lookup_player_by_fd, keepalive_timeout, tables, world
<1>3. CASE accept \/ p_hello \/ lookup_dc_player
    BY <1>3 DEF accept, p_hello, lookup_dc_player, tables, world
<1>4. CASE replace \/ take_out \/ start_keepalive
    BY <1>4 DEF replace, take_out, start_keepalive, tables, world
<1> QED BY <1>1, <1>2, <1>3, <1>4 DEF Code

\* Statements after which no two actors are at work on one player, and that did not find the store full.
LEMMA CodeStep ==
    ASSUME RaceTypeOK, RaceTypeOK', NoMeeting, NoMeeting', Core, ~halt, Code,
           \A a \in Actors : step[a].at = "search" => step'[a].at # "close"
    PROVE  Core' /\ ~halt'
<1>1. Core'
  <2>1. ASSUME NEW a \in Actors, disconnect(a) PROVE Core'
    <3>1. CASE read_fd(a) BY <3>1, ReadFdStep
    <3>2. CASE validate(a) BY <3>2, ValidateStep
    <3>3. CASE unregister(a) BY <3>3, UnregisterStep
    <3>4. CASE search(a)
      <4>1. step[a].at = "search" BY <3>4 DEF search, At
      <4> QED BY <3>4, <4>1, SearchStep
    <3>5. CASE away(a) BY <3>5, AwayStep
    <3>6. CASE store(a) BY <3>6, StoreStep
    <3>7. CASE close(a) BY <3>7, CloseStep
    <3> QED BY <2>1, <3>1, <3>2, <3>3, <3>4, <3>5, <3>6, <3>7 DEF disconnect
  <2>2. CASE lookup_player_by_fd BY <2>2, LookupStep
  <2>3. ASSUME NEW p \in Structs, keepalive_timeout(p) PROVE Core' BY <2>3, KeepaliveStep
  <2>4. CASE accept BY <2>4, AcceptStep
  <2>5. CASE handle_new_player BY <2>5, HandleNewPlayerStep
  <2>6. CASE p_hello BY <2>6, HelloStep
  <2>7. CASE lookup_dc_player BY <2>7, LookupDcStep
  <2>8. CASE replace BY <2>8, ReplaceStep
  <2>9. CASE take_out BY <2>9, TakeOutStep
  <2>10. CASE start_keepalive BY <2>10, StartKeepaliveStep
  <2> QED BY <2>1, <2>2, <2>3, <2>4, <2>5, <2>6, <2>7, <2>8, <2>9, <2>10 DEF Code
<1>2. halt' = halt
    BY HandleNewPlayerStep, HaltUnchanged
<1> QED BY <1>1, <1>2

\* The history variables only grow, and tell when two actors met or the store was full.
LEMMA History ==
    ASSUME RaceTypeOK', Next, Undisturbed'
    PROVE  /\ Undisturbed /\ NoMeeting'
           /\ \A a \in Actors : step[a].at = "search" => step'[a].at # "close"
<1>1. Undisturbed
    BY DEF Next, Undisturbed, Uncontested
<1>2. NoMeeting'
  <2> SUFFICES ASSUME NEW a \in Actors, NEW b \in Actors, a # b, AtWork(a)', AtWork(b)',
                      step'[a].p = step'[b].p
               PROVE  FALSE
    BY DEF NoMeeting
  <2>1. PICK q \in Structs : q = step'[a].p BY DEF AtWork, RaceTypeOK
  <2>2. WorksOn(a, q)' /\ WorksOn(b, q)' BY <2>1 DEF WorksOn
  <2>3. q \in contested' BY <2>2 DEF Next
  <2> QED BY <2>3 DEF Undisturbed, Uncontested
<1>3. ASSUME NEW a \in Actors, step[a].at = "search", step'[a].at = "close" PROVE FALSE
  <2>1. step[a].p \in unstored' BY <1>3 DEF Next
  <2> QED BY <2>1 DEF Undisturbed
<1> QED BY <1>1, <1>2, <1>3

LEMMA RaceInit == Init => RaceInv
<1> SUFFICES ASSUME Init PROVE RaceInv
    OBVIOUS
<1>1. \A a \in Actors : step[a] = Idle
    BY DEF Init
<1>2. Idle \in Locals
    BY DEF Idle, Labels
<1>3. RaceTypeOK
  <2>1. step \in [Actors -> Locals] BY <1>1, <1>2 DEF Init
  <2>2. \A a \in Actors : step[a].at = "idle" BY <1>1 DEF Idle
  <2>3. players \in [Fds -> 0 .. MaxStructs] /\ dc_players \in [StoreSlots -> 0 .. MaxStructs]
    <3>1. 0 \in 0 .. MaxStructs BY RaceAssumption
    <3> QED BY <3>1 DEF Init
  <2>4. socket \in [Fds -> [life : Nat, open : BOOLEAN]]
    BY DEF Init
  <2>5. fd \in [Structs -> Fds \cup {-1}] /\ name \in [Structs -> Names \cup {NewPlayer}]
    BY DEF Init
  <2>6. allocated \in 0 .. MaxStructs
    <3>1. 0 \in 0 .. MaxStructs BY RaceAssumption
    <3> QED BY <3>1 DEF Init
  <2>7. watched \subseteq Structs BY DEF Init
  <2>8. halt \in BOOLEAN BY DEF Init
  <2> QED BY <2>1, <2>2, <2>3, <2>4, <2>5, <2>6, <2>7, <2>8 DEF RaceTypeOK
<1>4. \A a \in Actors : step[a].at = "idle" /\ step[a].p = NoPlayer
    BY <1>1 DEF Idle
<1>5. NoMeeting
    BY <1>4 DEF NoMeeting, AtWork
<1>6. RegistryOpen /\ WatchedNamed /\ StoreOK
    BY DEF Init, RegistryOpen, WatchedNamed, StoreOK
<1>7. HoldersDiffer
    BY <1>4 DEF HoldersDiffer, Holds, Early, Late
<1>8. ReachableOK
    BY DEF Init, ReachableOK
<1>9. NewUnused
    BY <1>4, RaceAssumption DEF Init, NewUnused
<1>10. \A a \in Actors : ActorOK(a)
    BY <1>4 DEF ActorOK, Early, Late
<1>11. ~halt
    BY DEF Init
<1> QED BY <1>3, <1>5, <1>6, <1>7, <1>8, <1>9, <1>10, <1>11 DEF RaceInv, Core

LEMMA RaceNext == RaceInv /\ [Next]_vars => RaceInv'
<1> SUFFICES ASSUME RaceInv, [Next]_vars PROVE RaceInv'
    OBVIOUS
<1>1. CASE Next
  <2>1. RaceTypeOK'
    BY <1>1, CodeType DEF RaceInv, Next
  <2>2. ASSUME Undisturbed' PROVE NoMeeting' /\ Core' /\ ~halt'
    <3>1. /\ Undisturbed /\ NoMeeting'
          /\ \A a \in Actors : step[a].at = "search" => step'[a].at # "close"
      BY <1>1, <2>1, <2>2, History
    <3>2. RaceTypeOK /\ NoMeeting /\ Core /\ ~halt /\ Code
      BY <1>1, <3>1 DEF RaceInv, Next
    <3> QED BY <2>1, <3>1, <3>2, CodeStep
  <2> QED BY <2>1, <2>2 DEF RaceInv
<1>2. CASE UNCHANGED vars
  <2>1. RaceTypeOK' <=> RaceTypeOK
    BY <1>2 DEF vars, tables, world, RaceTypeOK
  <2>2. Undisturbed' <=> Undisturbed
    BY <1>2 DEF vars, Undisturbed, Uncontested
  <2>3. /\ NoMeeting' <=> NoMeeting
        /\ \A a \in Actors : ActorOK(a)' <=> ActorOK(a)
    BY <1>2 DEF vars, tables, world, NoMeeting, AtWork, ActorOK
  <2>4. (RegistryOpen /\ WatchedNamed /\ HoldersDiffer)' <=> (RegistryOpen /\ WatchedNamed /\ HoldersDiffer)
    BY <1>2 DEF vars, tables, world, RegistryOpen, WatchedNamed, HoldersDiffer, Holds
  <2>5. (StoreOK /\ ReachableOK /\ NewUnused)' <=> (StoreOK /\ ReachableOK /\ NewUnused)
    BY <1>2 DEF vars, tables, world, StoreOK, Restoring, ReachableOK, Reachable, WorksOn, AtWork, NewUnused
  <2>6. halt' = halt
    BY <1>2 DEF vars, world
  <2> QED BY <2>1, <2>2, <2>3, <2>4, <2>5, <2>6 DEF RaceInv, Core
<1> QED BY <1>1, <1>2

---------------------------------------------------------------------------
\* The theorems, for any number of players, descriptors and places in the store.

\* RaceInv holds in every reachable state of the statements of disconnect, accept and p_hello.
THEOREM RaceInvariant == Spec => []RaceInv
BY RaceInit, RaceNext, PTL DEF Spec

\* accept never returns a descriptor that is still registered (server.c:236-241), at whatever
\* statements the threads are, as long as no two of them are at work on one player.
THEOREM ExitCorrect == Spec => []ExitIsContested
<1>1. RaceInv => ExitIsContested
    BY DEF RaceInv, ExitIsContested
<1> QED BY <1>1, RaceInvariant, PTL

\* disconnect closes the connection whose descriptor it has read (server.c:272 and 289).
THEOREM ClosesItsOwnCorrect == Spec => []ClosesItsOwn
<1>1. ASSUME RaceInv PROVE ClosesItsOwn
  <2> SUFFICES ASSUME Undisturbed, NEW a \in Actors, step[a].at = "close"
               PROVE  socket[step[a].fd] = [life |-> step[a].life, open |-> TRUE]
    BY DEF ClosesItsOwn
  <2>1. /\ step[a].fd \in Fds /\ socket[step[a].fd].open
        /\ socket[step[a].fd].life = step[a].life
    BY <1>1 DEF RaceInv, Core, ActorOK, Late
  <2>2. socket[step[a].fd] \in [life : Nat, open : BOOLEAN]
    BY <1>1, <2>1 DEF RaceInv, RaceTypeOK
  <2> QED BY <2>1, <2>2
<1> QED BY <1>1, RaceInvariant, PTL

\* Nobody is registered under a closed descriptor (player_mngr.c:268 comes before server.c:289).
THEOREM RegisteredIsOpenCorrect == Spec => []RegisteredIsOpen
<1>1. RaceInv => RegisteredIsOpen
    BY DEF RaceInv, Core, RegistryOpen, RegisteredIsOpen
<1> QED BY <1>1, RaceInvariant, PTL

\* players and the players' fd fields agree between any two statements (player_mngr.c:79-82, 268-287).
THEOREM RegistryAgreesCorrect == Spec => []RegistryAgrees
<1>1. RaceInv => RegistryAgrees
    BY DEF RaceInv, Core, RegistryOpen, RegistryAgrees
<1> QED BY <1>1, RaceInvariant, PTL

---------------------------------------------------------------------------
\* Who is away is stored.

\* Whose work overlaps that of another is in overlapped.
OverlapOK ==
    \A a, b \in Actors : a # b /\ AtWork(a) /\ AtWork(b) => step[a].p \in overlapped

\* A slot that is about to be filled or emptied holds nobody else who counts on it.
SlotOK ==
    \A a \in Actors : step[a].at \in {"away", "store", "replace", "take_out"} =>
       /\ step[a].slot \in StoreSlots
       /\ dc_players[step[a].slot] \in {NoPlayer, step[a].p} \cup overlapped

\* A player without a descriptor is stored from the statement store on.
AwayOK ==
    \A p \in 1 .. allocated :
       fd[p] = -1 /\ (\A a \in Actors : WorksOn(a, p) => step[a].at = "close") =>
          p \in overlapped \/ \E i \in StoreSlots : dc_players[i] = p

AwayInv == RaceInv /\ OverlapOK /\ (Undisturbed => SlotOK /\ AwayOK)

LEMMA OverlapNext == ASSUME RaceTypeOK', Next PROVE OverlapOK' /\ overlapped \subseteq overlapped'
<1>1. ASSUME NEW a \in Actors, NEW b \in Actors, a # b, AtWork(a)', AtWork(b)'
      PROVE  step'[a].p \in overlapped'
  <2>1. PICK q \in Structs : q = step'[a].p BY <1>1 DEF AtWork, RaceTypeOK
  <2>2. WorksOn(a, q)' BY <1>1, <2>1 DEF WorksOn
  <2> QED BY <1>1, <2>1, <2>2 DEF Next
<1> QED BY <1>1 DEF Next, OverlapOK

\* A step of a that leaves the store alone.
LEMMA SameStore ==
    ASSUME RaceTypeOK, RaceTypeOK', SlotOK, AwayOK, dc_players' = dc_players, overlapped \subseteq overlapped',
           NEW a \in Actors, \A b \in Actors : b # a => step'[b] = step[b],
           step'[a].at \in {"away", "store", "replace", "take_out"} =>
              /\ step'[a].slot \in StoreSlots
              /\ dc_players[step'[a].slot] \in {NoPlayer, step'[a].p} \cup overlapped,
           \A q \in 1 .. allocated' : fd'[q] = -1 /\ (WorksOn(a, q)' => step'[a].at = "close") =>
              q \in 1 .. allocated /\ fd[q] = -1 /\ (WorksOn(a, q) => step[a].at = "close")
    PROVE  SlotOK' /\ AwayOK'
<1>1. ASSUME NEW b \in Actors, step'[b].at \in {"away", "store", "replace", "take_out"}
      PROVE  /\ step'[b].slot \in StoreSlots
             /\ dc_players'[step'[b].slot] \in {NoPlayer, step'[b].p} \cup overlapped'
  <2>1. CASE b = a BY <1>1, <2>1
  <2>2. CASE b # a BY <1>1, <2>2 DEF SlotOK
  <2> QED BY <2>1, <2>2
<1>2. ASSUME NEW q \in 1 .. allocated', fd'[q] = -1,
             \A b \in Actors : WorksOn(b, q)' => step'[b].at = "close"
      PROVE  q \in overlapped' \/ \E i \in StoreSlots : dc_players'[i] = q
  <2>1. q \in 1 .. allocated /\ fd[q] = -1 /\ (WorksOn(a, q) => step[a].at = "close")
    BY <1>2
  <2>2. \A b \in Actors : WorksOn(b, q) => step[b].at = "close"
    BY <1>2, <2>1 DEF WorksOn, AtWork
  <2> QED BY <2>1, <2>2 DEF AwayOK
<1> QED BY <1>1, <1>2 DEF SlotOK, AwayOK

\* A step of a that fills or empties its slot, of which nobody else who counts on it is bereft.
LEMMA SlotWritten ==
    ASSUME RaceTypeOK, RaceTypeOK', SlotOK, AwayOK, OverlapOK, overlapped \subseteq overlapped',
           allocated' = allocated, fd' = fd,
           NEW a \in Actors, \A b \in Actors : b # a => step'[b] = step[b],
           step[a].at \in {"store", "take_out"}, step'[a].at \in {"close", "login"}, step'[a].p = step[a].p,
           NEW v \in {NoPlayer, step[a].p}, dc_players' = [dc_players EXCEPT ![step[a].slot] = v],
           fd[step[a].p] = -1 => v = step[a].p
    PROVE  SlotOK' /\ AwayOK'
<1> DEFINE s == step[a].slot  p == step[a].p
<1>1. /\ s \in StoreSlots /\ dc_players[s] \in {NoPlayer, p} \cup overlapped
      /\ p \in Structs /\ AtWork(a)
    BY DEF SlotOK, AtWork, RaceTypeOK
<1> HIDE DEF s, p
<1>2. \A i \in StoreSlots : dc_players'[i] = IF i = s THEN v ELSE dc_players[i]
    BY DEF RaceTypeOK, s
<1>3. ASSUME NEW b \in Actors, step'[b].at \in {"away", "store", "replace", "take_out"}
      PROVE  /\ step'[b].slot \in StoreSlots
             /\ dc_players'[step'[b].slot] \in {NoPlayer, step'[b].p} \cup overlapped'
  <2>1. b # a /\ step'[b] = step[b] BY <1>3
  <2>2. AtWork(b) BY <1>3, <2>1 DEF AtWork
  <2>3. p \in overlapped BY <1>1, <2>1, <2>2 DEF OverlapOK, p
  <2>4. step[b].slot \in StoreSlots /\ dc_players[step[b].slot] \in {NoPlayer, step[b].p} \cup overlapped
    BY <1>3, <2>1 DEF SlotOK
  <2>5. v \in {NoPlayer, p} BY DEF p
  <2> QED BY <1>2, <2>1, <2>3, <2>4, <2>5
<1>4. ASSUME NEW q \in 1 .. allocated, fd[q] = -1,
             \A b \in Actors : WorksOn(b, q)' => step'[b].at = "close"
      PROVE  q \in overlapped' \/ \E i \in StoreSlots : dc_players'[i] = q
  <2>1. CASE q = p
    <3>1. v = p BY <1>4, <2>1 DEF p
    <3> QED BY <1>1, <1>2, <2>1, <3>1
  <2>2. CASE q # p
    <3>1. \A b \in Actors : WorksOn(b, q) => step[b].at = "close"
      BY <1>4, <2>2 DEF WorksOn, AtWork, p
    <3>2. q \in overlapped \/ \E i \in StoreSlots : dc_players[i] = q
      BY <1>4, <3>1 DEF AwayOK
    <3>3. ASSUME NEW i \in StoreSlots, dc_players[i] = q PROVE q \in overlapped \/ dc_players'[i] = q
      <4>1. q # NoPlayer BY DEF RaceTypeOK
      <4> QED BY <1>1, <1>2, <2>2, <3>3, <4>1
    <3> QED BY <3>2, <3>3
  <2> QED BY <2>1, <2>2
<1> QED BY <1>3, <1>4 DEF SlotOK, AwayOK

\* Another step of a disconnect before the descriptor is taken away.
LEMMA BeforeAway ==
    ASSUME RaceTypeOK, RaceTypeOK', Core, SlotOK, AwayOK, overlapped \subseteq overlapped',
           NEW a \in Actors, validate(a) \/ unregister(a) \/ (search(a) /\ step'[a].at # "close")
    PROVE  SlotOK' /\ AwayOK'
<1> DEFINE p == step[a].p
<1>1. step[a].at \in {"validate", "unregister", "search"} /\ ActorOK(a) /\ p \in Structs
    BY DEF validate, unregister, search, At, Core, RaceTypeOK
<1>2. fd[p] # -1 /\ ~(fd[p] < 0)
    BY <1>1, FdsNat DEF ActorOK, Early, Late
<1>3. dc_players' = dc_players /\ fd' = fd /\ allocated' = allocated
    BY DEF validate, unregister, search, tables, world
<1>4. /\ \A b \in Actors : b # a => step'[b] = step[b]
      /\ step'[a].p = p /\ step'[a].at # "close"
      /\ step'[a].at \in {"away", "store", "replace", "take_out"} =>
            step'[a].slot \in StoreSlots /\ dc_players[step'[a].slot] = NoPlayer
  <2>1. CASE validate(a)
    <3>1. Goto(a, "unregister") BY <1>2, <2>1 DEF validate
    <3> QED BY <3>1, GotoFields DEF Labels, Early
  <2>2. CASE unregister(a)
    <3>1. Goto(a, "search") BY <2>2 DEF unregister
    <3> QED BY <3>1, GotoFields DEF Labels, Late
  <2>3. CASE search(a) /\ step'[a].at # "close"
    <3>1. ~Goto(a, "close") BY <2>3, GotoFields DEF Labels, Late
    <3>2. PICK i \in StoreSlots : /\ dc_players[i] = NoPlayer
                                  /\ step' = [step EXCEPT ![a].at = "away", ![a].slot = i]
      BY <2>3, <3>1 DEF search, Least
    <3>3. step \in [Actors -> Locals] BY DEF RaceTypeOK
    <3>4. \A b \in Actors : b # a => step'[b] = step[b] BY <3>2, <3>3
    <3>5. step'[a].p = p BY <3>2, <3>3
    <3>6. step'[a].slot = i BY <3>2, <3>3
    <3> QED BY <2>3, <3>2, <3>4, <3>5, <3>6
  <2> QED BY <2>1, <2>2, <2>3
<1>5. \A q \in 1 .. allocated : q \in Structs
    BY DEF RaceTypeOK
<1>6. \A q \in Structs : fd[q] = -1 => ~WorksOn(a, q)
    BY <1>2 DEF WorksOn
<1> HIDE DEF p
<1> QED BY <1>3, <1>4, <1>5, <1>6, SameStore

LEMMA DisconnectAway ==
    ASSUME RaceTypeOK, RaceTypeOK', Core, SlotOK, AwayOK, OverlapOK, overlapped \subseteq overlapped',
           NEW a \in Actors, disconnect(a), step[a].at = "search" => step'[a].at # "close"
    PROVE  SlotOK' /\ AwayOK'
<1> DEFINE p == step[a].p
<1>1. CASE read_fd(a)
  <2>1. /\ step[a].at = "found" /\ \A b \in Actors : b # a => step'[b] = step[b]
        /\ step'[a].at \in {"idle", "validate"}
        /\ dc_players' = dc_players /\ fd' = fd /\ allocated' = allocated
    BY <1>1 DEF read_fd, At, Return, Idle, tables, world, RaceTypeOK
  <2> QED BY <2>1, SameStore DEF WorksOn, AtWork
<1>2. CASE validate(a) \/ unregister(a) \/ search(a)
  <2>1. search(a) => step'[a].at # "close" BY DEF search, At
  <2> QED BY <1>2, <2>1, BeforeAway
<1>3. CASE away(a)
  <2>1. /\ step[a].at = "away" /\ \A b \in Actors : b # a => step'[b] = step[b]
        /\ step'[a].p = p /\ step'[a].at = "store" /\ step'[a].slot = step[a].slot
        /\ dc_players' = dc_players /\ allocated' = allocated /\ p \in Structs
    BY <1>3, GotoFields DEF away, At, world, RaceTypeOK, Labels, Late
  <2>2. \A q \in Structs : fd'[q] = IF q = p THEN -1 ELSE fd[q]
    BY <1>3, <2>1 DEF away, RaceTypeOK
  <2>3. step'[a].slot \in StoreSlots /\ dc_players[step'[a].slot] \in {NoPlayer, step'[a].p} \cup overlapped
    BY <2>1 DEF SlotOK
  <2>4. WorksOn(a, p)'
    <3>1. step'[a].p = step[a].p BY <2>1
    <3> QED BY <2>1, <3>1 DEF WorksOn, AtWork
  <2>5. \A q \in 1 .. allocated : q \in Structs
    BY DEF RaceTypeOK
  <2>6. \A q \in Structs : q # p => ~WorksOn(a, q)
    BY DEF WorksOn
  <2>7. ASSUME NEW q \in 1 .. allocated, fd'[q] = -1, WorksOn(a, q)' => step'[a].at = "close"
        PROVE  fd[q] = -1 /\ ~WorksOn(a, q)
    <3>1. q # p BY <2>1, <2>4, <2>7
    <3> QED BY <2>2, <2>5, <2>6, <2>7, <3>1
  <2> HIDE DEF p
  <2> QED BY <2>1, <2>3, <2>7, SameStore
<1>4. CASE store(a)
  <2>1. /\ step[a].at = "store" /\ \A b \in Actors : b # a => step'[b] = step[b]
        /\ step'[a].p = p /\ step'[a].at = "close"
        /\ dc_players' = [dc_players EXCEPT ![step[a].slot] = p]
        /\ fd' = fd /\ allocated' = allocated
    BY <1>4, GotoFields DEF store, At, world, Labels, Late
  <2> QED BY <2>1, SlotWritten
<1>5. CASE close(a)
  <2>1. step[a].at = "close" /\ dc_players' = dc_players /\ fd' = fd /\ allocated' = allocated
    BY <1>5 DEF close, At, tables
  <2>2. (\A b \in Actors : b # a => step'[b] = step[b]) /\ step'[a].at = "idle"
    BY <1>5, ReturnFields DEF close
  <2> QED BY <2>1, <2>2, SameStore
<1> QED BY <1>1, <1>2, <1>3, <1>4, <1>5 DEF disconnect

\* A step of the main thread on a player who keeps his descriptor.
LEMMA MainSameStore ==
    ASSUME RaceTypeOK, RaceTypeOK', SlotOK, AwayOK, overlapped \subseteq overlapped',
           dc_players' = dc_players, allocated' = allocated,
           \A q \in 1 .. allocated : fd'[q] = -1 => fd[q] = -1,
           \A b \in Actors : b # Main => step'[b] = step[b],
           \A q \in Structs : fd[q] = -1 => ~WorksOn(Main, q),
           step'[Main].at \in {"away", "store", "replace", "take_out"} =>
              /\ step'[Main].slot \in StoreSlots
              /\ dc_players[step'[Main].slot] \in {NoPlayer, step'[Main].p}
    PROVE  SlotOK' /\ AwayOK'
<1>1. \A q \in 1 .. allocated : q \in Structs
    BY DEF RaceTypeOK
<1>2. Main \in Actors OBVIOUS
<1> QED BY <1>1, <1>2, SameStore

LEMMA MainAway ==
    ASSUME RaceTypeOK, RaceTypeOK', Core, ~halt', SlotOK, AwayOK, OverlapOK, overlapped \subseteq overlapped',
           accept \/ handle_new_player \/ p_hello \/ lookup_dc_player \/ replace \/ take_out \/ start_keepalive
    PROVE  SlotOK' /\ AwayOK'
<1> DEFINE p == step[Main].p
<1>0. /\ ActorOK(Main) /\ Main \in Actors /\ step \in [Actors -> Locals]
      /\ step[Main].at \notin {"idle", "accepted"} => p \in Structs
    BY DEF Core, RaceTypeOK
<1>1. CASE accept \/ p_hello \/ start_keepalive
  <2>1. /\ step[Main].at \in {"idle", "login"}
        /\ dc_players' = dc_players /\ fd' = fd /\ allocated' = allocated
    BY <1>1 DEF accept, p_hello, start_keepalive, At, tables, world
  <2>2. /\ \A b \in Actors : b # Main => step'[b] = step[b]
        /\ step'[Main].at \notin {"away", "store", "replace", "take_out"}
    <3>1. ASSUME NEW f \in Fds, step' = [step EXCEPT ![Main].at = "accepted", ![Main].fd = f]
          PROVE  (\A b \in Actors : b # Main => step'[b] = step[b]) /\ step'[Main].at = "accepted"
      BY <1>0, <3>1
    <3>2. ASSUME NEW q, step' = [step EXCEPT ![Main].at = "named", ![Main].p = q]
          PROVE  (\A b \in Actors : b # Main => step'[b] = step[b]) /\ step'[Main].at = "named"
      BY <1>0, <3>2
    <3>4. CASE accept
      BY <3>1, <3>4 DEF accept, Least
    <3>5. CASE p_hello
      <4>1. PICK f \in Fds : step' = [step EXCEPT ![Main].at = "named", ![Main].p = players[f]]
        BY <3>5 DEF p_hello
      <4> QED BY <3>2, <4>1
    <3>3. CASE start_keepalive BY <3>3, ReturnFields DEF start_keepalive
    <3> QED BY <1>1, <3>3, <3>4, <3>5
  <2>3. \A q \in Structs : ~WorksOn(Main, q)
    BY <2>1 DEF WorksOn, AtWork
  <2> QED BY <2>1, <2>2, <2>3, MainSameStore
<1>2. CASE handle_new_player
  <2>1. /\ step[Main].at = "accepted" /\ dc_players' = dc_players
        /\ step[Main].fd \in Fds /\ allocated \in Nat /\ allocated + 1 \in Structs
        /\ fd' = [fd EXCEPT ![allocated + 1] = step[Main].fd] /\ allocated' = allocated + 1
    BY <1>0, <1>2 DEF handle_new_player, At, RaceTypeOK, ActorOK
  <2>2. (\A b \in Actors : b # Main => step'[b] = step[b]) /\ step'[Main].at = "idle"
    BY <1>2, ReturnFields DEF handle_new_player
  <2>3. \A q \in Structs : fd'[q] = IF q = allocated + 1 THEN step[Main].fd ELSE fd[q]
    BY <2>1 DEF RaceTypeOK
  <2>4. \A q \in 1 .. allocated' : q \in Structs /\ (q \in 1 .. allocated \/ q = allocated + 1)
    BY <2>1
  <2>5. step[Main].fd # -1
    BY <2>1, FdsNat
  <2>6. \A q \in Structs : ~WorksOn(Main, q)
    BY <2>1 DEF WorksOn, AtWork
  <2>7. \A q \in 1 .. allocated' : fd'[q] = -1 => q \in Structs /\ q \in 1 .. allocated /\ fd[q] = -1
    BY <2>3, <2>4, <2>5
  <2> QED BY <1>0, <2>1, <2>2, <2>6, <2>7, SameStore
<1>3. CASE lookup_dc_player
  <2>1. step[Main].at = "named" /\ dc_players' = dc_players /\ allocated' = allocated
    BY <1>3 DEF lookup_dc_player, At, world
  <2>2. fd[p] # -1 /\ fd[p] \in Fds
    BY <1>0, <2>1, FdsNat DEF ActorOK
  <2>3. \A q \in Structs : fd[q] = -1 => ~WorksOn(Main, q)
    BY <2>2 DEF WorksOn
  <2>4. \A q \in 1 .. allocated : q \in Structs
    BY DEF RaceTypeOK
  <2>5. CASE Goto(Main, "login") /\ fd' = fd
    <3>1. (\A b \in Actors : b # Main => step'[b] = step[b]) /\ step'[Main].at = "login"
      BY <2>5, GotoFields DEF Labels
    <3> QED BY <2>1, <2>3, <2>5, <3>1, MainSameStore
  <2>6. ASSUME NEW i \in StoreSlots, dc_players[i] \in Structs,
               fd' = [fd EXCEPT ![dc_players[i]] = fd[p]],
               step' = [step EXCEPT ![Main].at = "replace", ![Main].p = dc_players[i], ![Main].slot = i]
        PROVE  SlotOK' /\ AwayOK'
    <3>1. \A b \in Actors : b # Main => step'[b] = step[b] BY <1>0, <2>6
    <3>2. step'[Main].p = dc_players[i] BY <1>0, <2>6
    <3>3. step'[Main].slot = i BY <1>0, <2>6
    <3>4. \A q \in Structs : fd'[q] = IF q = dc_players[i] THEN fd[p] ELSE fd[q]
      BY <2>6 DEF RaceTypeOK
    <3>5. \A q \in 1 .. allocated : fd'[q] = -1 => fd[q] = -1
      BY <2>2, <2>4, <3>4
    <3> QED BY <2>1, <2>3, <3>1, <3>2, <3>3, <3>5, MainSameStore
  <2>7. \/ Goto(Main, "login") /\ fd' = fd
        \/ \E i \in StoreSlots :
              /\ dc_players[i] \in Structs /\ fd' = [fd EXCEPT ![dc_players[i]] = fd[p]]
              /\ step' = [step EXCEPT ![Main].at = "replace", ![Main].p = dc_players[i], ![Main].slot = i]
    BY <1>3, TableTypes DEF lookup_dc_player, Least
  <2> QED BY <2>5, <2>6, <2>7
<1>4. CASE replace
  <2>1. /\ step[Main].at = "replace" /\ dc_players' = dc_players /\ fd' = fd /\ allocated' = allocated
    BY <1>4 DEF replace, At, world
  <2>2. /\ \A b \in Actors : b # Main => step'[b] = step[b]
        /\ step'[Main].p = p /\ step'[Main].slot = step[Main].slot /\ step'[Main].at = "take_out"
    BY <1>4, GotoFields DEF replace, Labels
  <2>3. fd[p] # -1
    BY <1>0, <2>1, FdsNat DEF ActorOK
  <2>4. step[Main].slot \in StoreSlots /\ dc_players[step[Main].slot] \in {NoPlayer, p} \cup overlapped
    BY <1>0, <2>1 DEF SlotOK
  <2>5. \A q \in Structs : fd[q] = -1 => ~WorksOn(Main, q)
    BY <2>3 DEF WorksOn
  <2>6. \A q \in 1 .. allocated : q \in Structs
    BY DEF RaceTypeOK
  <2> HIDE DEF p
  <2> QED BY <1>0, <2>1, <2>2, <2>4, <2>5, <2>6, SameStore
<1>5. CASE take_out
  <2>1. /\ step[Main].at = "take_out"
        /\ dc_players' = [dc_players EXCEPT ![step[Main].slot] = NoPlayer]
        /\ fd' = fd /\ allocated' = allocated
    BY <1>5 DEF take_out, At, world
  <2>2. /\ \A b \in Actors : b # Main => step'[b] = step[b]
        /\ step'[Main].p = p /\ step'[Main].at = "login"
    BY <1>5, GotoFields DEF take_out, Labels
  <2>3. fd[p] # -1
    BY <1>0, <2>1, FdsNat DEF ActorOK
  <2>4. Main \in Actors /\ NoPlayer \in {NoPlayer, p}
    OBVIOUS
  <2> QED BY <2>1, <2>2, <2>3, <2>4, SlotWritten
<1> QED BY <1>1, <1>2, <1>3, <1>4, <1>5

LEMMA AwayNext == AwayInv /\ [Next]_vars => AwayInv'
<1> SUFFICES ASSUME AwayInv, [Next]_vars PROVE AwayInv'
    OBVIOUS
<1>1. RaceInv' /\ RaceTypeOK /\ RaceTypeOK'
    BY RaceNext DEF AwayInv, RaceInv
<1>2. CASE Next
  <2>1. OverlapOK' /\ overlapped \subseteq overlapped'
    BY <1>1, <1>2, OverlapNext
  <2>2. ASSUME Undisturbed' PROVE SlotOK' /\ AwayOK'
    <3>1. Undisturbed /\ \A a \in Actors : step[a].at = "search" => step'[a].at # "close"
      BY <1>1, <1>2, <2>2, History
    <3>2. Core /\ SlotOK /\ AwayOK /\ OverlapOK /\ ~halt' /\ Code
      BY <1>1, <1>2, <2>2, <3>1 DEF AwayInv, RaceInv, Next
    <3>3. ASSUME NEW a \in Actors, disconnect(a) PROVE SlotOK' /\ AwayOK'
      BY <1>1, <2>1, <3>1, <3>2, <3>3, DisconnectAway
    <3>4. ASSUME NEW a \in Actors, step[a].at = "idle", step'[a].at = "found",
                 \A b \in Actors : b # a => step'[b] = step[b],
                 dc_players' = dc_players, fd' = fd, allocated' = allocated
          PROVE  SlotOK' /\ AwayOK'
      BY <1>1, <2>1, <3>2, <3>4, SameStore DEF WorksOn, AtWork
    <3>5. CASE lookup_player_by_fd
      <4>1. /\ Main \in Actors /\ step[Main].at = "idle" /\ step'[Main].at = "found"
            /\ \A b \in Actors : b # Main => step'[b] = step[b]
            /\ dc_players' = dc_players /\ fd' = fd /\ allocated' = allocated
        BY <1>1, <3>5 DEF lookup_player_by_fd, At, tables, world, RaceTypeOK
      <4> QED BY <3>4, <4>1
    <3>6. ASSUME NEW q \in Structs, keepalive_timeout(q) PROVE SlotOK' /\ AwayOK'
      <4>1. /\ q \in Actors /\ step[q].at = "idle" /\ step'[q].at = "found"
            /\ \A b \in Actors : b # q => step'[b] = step[b]
            /\ dc_players' = dc_players /\ fd' = fd /\ allocated' = allocated
        BY <1>1, <3>6 DEF keepalive_timeout, At, tables, world, RaceTypeOK
      <4> QED BY <3>4, <4>1
    <3> QED BY <1>1, <2>1, <3>2, <3>3, <3>5, <3>6, MainAway DEF Code
  <2> QED BY <1>1, <2>1, <2>2 DEF AwayInv
<1>3. CASE UNCHANGED vars
  <2>1. (OverlapOK' <=> OverlapOK) /\ (Undisturbed' <=> Undisturbed)
    BY <1>3 DEF vars, OverlapOK, AtWork, Undisturbed, Uncontested
  <2>2. (SlotOK' <=> SlotOK) /\ (AwayOK' <=> AwayOK)
    BY <1>3 DEF vars, tables, world, SlotOK, AwayOK, WorksOn, AtWork
  <2> QED BY <1>1, <2>1, <2>2 DEF AwayInv
<1> QED BY <1>2, <1>3

\* Who has been left without a descriptor is in the store when his disconnect is over
\* (player_mngr.c:280-287), unless it overlapped the work of another actor.
THEOREM AwayIsStoredCorrect == Spec => []AwayIsStored
<1>1. Init => AwayInv
  <2> SUFFICES ASSUME Init PROVE OverlapOK /\ SlotOK /\ AwayOK
    BY RaceInit DEF AwayInv
  <2>1. \A a \in Actors : step[a].at = "idle"
    BY DEF Init, Idle
  <2>2. 1 .. allocated = {}
    BY DEF Init
  <2> QED BY <2>1, <2>2 DEF OverlapOK, SlotOK, AwayOK, AtWork
<1>2. AwayInv => AwayIsStored
    BY DEF AwayInv, AwayOK, AwayIsStored
<1> QED BY <1>1, <1>2, AwayNext, PTL DEF Spec
=============================================================================
