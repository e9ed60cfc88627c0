------------------------------- MODULE IpxCave -------------------------------
(***************************************************************************)
(* The game the DOS netchan demo plays (netchan-ipx/demo/game.c) and the   *)
(* snapshot of it that goes over the wire (game_net.c): the cave is        *)
(* generated from noise, players and creatures are placed, and a tick      *)
(* moves players, shots and creatures in that order.  The random number    *)
(* generator is a nondeterministic choice.                                 *)
(***************************************************************************)
EXTENDS Integers, Sequences, FiniteSetsExt, SequencesExt

CONSTANTS
    W, H,       \* MAP_W, MAP_H
    Noises,     \* the raw maps gen_map may draw: sets of walls (the empty one is played on)
    Spawns,     \* bound: the tiles random_floor tries
    Players, Creatures, Shots,  \* MAX_PLAYERS, MAX_CREATURES, MAX_SHOTS: how many
    Hits,       \* PLAYER_HP
    Range0,     \* SHOT_RANGE
    Respawn,    \* RESPAWN_T
    Inputs,     \* the input bytes, as <<move, fire>> with NoDir for none
    MaxTicks    \* bound: ticks played

VARIABLES
    walls,      \* the wall tiles of the map
    world,      \* struct world, with fire_cd and respawn_t in the players
    stacked     \* ghost: the pairs of creatures that were placed on one tile

caveVars == <<walls, world, stacked>>

Speed == 2      \* SHOT_SPEED
Cooldown == 2   \* FIRE_CD
NoDir == 15

Dx == <<0, 1, 1, 1, 0, -1, -1, -1>>
Dy == <<-1, -1, 0, 1, 1, 1, 0, -1>>
Step(p, d) == <<p[1] + Dx[d + 1], p[2] + Dy[d + 1]>>

Tiles == {<<x, y>> : x \in 0 .. W - 1, y \in 0 .. H - 1}
Inner == {<<x, y>> : x \in 1 .. W - 2, y \in 1 .. H - 2}

Sgn(v) == IF v < 0 THEN -1 ELSE IF v > 0 THEN 1 ELSE 0
Abs(v) == IF v < 0 THEN -v ELSE v

----------------------------------------------------------------------------
\* wall_neighbors
WallNeighbors(m, p) == Cardinality({d \in 0 .. 7 : Step(p, d) \in m})

\* One smoothing pass of gen_map over the inner tiles.
Smooth(m) == (Tiles \ Inner) \cup {p \in Inner : WallNeighbors(m, p) >= 5}

\* The flood of keep_largest_region: what the tiles in found reach without diagonals.
RECURSIVE Flood(_, _)
Flood(m, found) ==
    LET more == found \cup {p \in Inner \ m : \E d \in {0, 2, 4, 6} : Step(p, d) \in found}
    IN  IF more = found THEN found ELSE Flood(m, more)

\* keep_largest_region: the first of the largest regions, scanning row by row, stays.
Before(p, q) == p[2] < q[2] \/ (p[2] = q[2] /\ p[1] < q[1])

KeepLargestRegion(m) ==
    LET regions == {Flood(m, {p}) : p \in Inner \ m}
        first(r) == CHOOSE p \in r : \A q \in r \ {p} : Before(p, q)
        best == CHOOSE r \in regions : \A s \in regions \ {r} :
                    \/ Cardinality(r) > Cardinality(s)
                    \/ Cardinality(r) = Cardinality(s) /\ Before(first(r), first(s))
    IN  IF regions = {} THEN m ELSE Tiles \ best

\* gen_map
GenMap(noise) == KeepLargestRegion(Smooth(Smooth(Smooth(Smooth((Tiles \ Inner) \cup noise)))))

IsFloor(m, p) == p \in Tiles \ m

NoShot == [at |-> <<0, 0>>, dir |-> 0, owner |-> 0, ttl |-> 0, alive |-> FALSE]
NoPlayer == [at |-> <<0, 0>>, facing |-> 0, alive |-> FALSE, hp |-> 0, input |-> <<NoDir, NoDir>>,
             score |-> 0, cd |-> 0, respawn |-> 0]
Joined(p) == [NoPlayer EXCEPT !.at = p, !.facing = 4, !.alive = TRUE, !.hp = Hits]

\* random_floor, where the map is played on; elsewhere one tile stands for all.
Draws(noise, m) == IF noise = {} THEN Spawns \ m
                   ELSE {p \in Tiles \ m : \A q \in Tiles \ m : q = p \/ Before(p, q)}

\* game_init and the players who joined (game_add_player): each on some floor tile.
CaveInit ==
    \E noise \in Noises, n \in 0 .. Players - 1 :
        /\ noise = {} \/ n = 0
        /\ walls = GenMap(noise)
        /\ \E cs \in [0 .. Creatures - 1 -> Draws(noise, walls)], ps \in [0 .. n -> Draws(noise, walls)] :
               /\ world = [players |-> [i \in 0 .. Players - 1 |->
                                           IF i <= n THEN Joined(ps[i]) ELSE NoPlayer],
                           creatures |-> [i \in 0 .. Creatures - 1 |-> [at |-> cs[i], alive |-> TRUE]],
                           shots |-> [i \in 0 .. Shots - 1 |-> NoShot],
                           tick |-> IF noise = {} THEN 0 ELSE MaxTicks + 1]
               /\ stacked = {pair \in SUBSET (0 .. Creatures - 1) :
                                 Cardinality(pair) = 2 /\ Cardinality({cs[c] : c \in pair}) = 1}

----------------------------------------------------------------------------
\* The first dead shot of the table, which a player who fires takes.
FreeShots(w) == {s \in 0 .. Shots - 1 : ~w.shots[s].alive}

Moved(m, p) ==
    LET dir == p.input[1] IN
    IF dir >= 8 THEN p
    ELSE [p EXCEPT !.facing = dir, !.at = IF IsFloor(m, Step(@, dir)) THEN Step(@, dir) ELSE @]

\* step_players, for player i: the cooldown, the move, the shot.
StepPlayer(w, i) ==
    LET p == Moved(walls, [w.players[i] EXCEPT !.cd = IF @ > 0 THEN @ - 1 ELSE 0])
        fdir == p.input[2]
        fires == fdir < 8 /\ p.cd = 0 /\ FreeShots(w) # {}
        s == Min(FreeShots(w))
    IN  IF ~w.players[i].alive THEN w
        ELSE IF ~fires THEN [w EXCEPT !.players[i] = p]
        ELSE [w EXCEPT !.players[i] = [p EXCEPT !.cd = Cooldown],
                       !.shots[s] = [at |-> p.at, dir |-> fdir, owner |-> i, ttl |-> Range0, alive |-> TRUE]]

CreaturesAt(w, p) == {c \in 0 .. Creatures - 1 : w.creatures[c].alive /\ w.creatures[c].at = p}

\* step_shots, for shot s, n steps of it left: it stops at a wall, at the first
\* creature it meets, or when its range is used up.
RECURSIVE StepShot(_, _, _)
StepShot(w, s, n) ==
    LET sh == w.shots[s]
        to == Step(sh.at, sh.dir)
        hit == CreaturesAt(w, to)
    IN  IF n = 0 \/ ~sh.alive THEN w
        ELSE IF ~IsFloor(walls, to) THEN [w EXCEPT !.shots[s].alive = FALSE]
        ELSE IF hit # {}
        THEN [w EXCEPT !.shots[s].at = to, !.shots[s].alive = FALSE,
                       !.creatures[Min(hit)].alive = FALSE,
                       !.players[sh.owner].score = @ + 10]
        ELSE IF sh.ttl = 0 THEN [w EXCEPT !.shots[s].at = to, !.shots[s].alive = FALSE]
        ELSE StepShot([w EXCEPT !.shots[s].at = to, !.shots[s].ttl = @ - 1], s, n - 1)

\* nearest_player: the first of the nearest live ones.
Apart(p, q) == Max({Abs(p[1] - q[1]), Abs(p[2] - q[2])})
Nearest(w, at) ==
    LET live == {i \in 0 .. Players - 1 : w.players[i].alive}
        d(i) == Apart(w.players[i].at, at)
    IN  {i \in live : \A j \in live : d(i) < d(j) \/ (d(i) = d(j) /\ i <= j)}

\* The tile creature c steps to, towards p: straight, or along one axis.
Vacant(w, p) == IsFloor(walls, p) /\ CreaturesAt(w, p) = {}
\* A step that looks for walls only.
TowardsAnyone(w, at, p) ==
    LET to == <<at[1] + Sgn(p[1] - at[1]), at[2] + Sgn(p[2] - at[2])>>
    IN  IF IsFloor(walls, to) THEN to ELSE at

Towards(w, at, p) ==
    LET dx == Sgn(p[1] - at[1])
        dy == Sgn(p[2] - at[2])
        ways == <<<<at[1] + dx, at[2] + dy>>, <<at[1] + dx, at[2]>>, <<at[1], at[2] + dy>>>>
        open == {k \in 1 .. 3 : Vacant(w, ways[k])}
    IN  IF open = {} THEN at ELSE ways[Min(open)]

\* A creature next to its prey bites it.
Bite(w, i) ==
    IF w.players[i].hp > 1 THEN [w EXCEPT !.players[i].hp = @ - 1]
    ELSE [w EXCEPT !.players[i].hp = 0, !.players[i].alive = FALSE, !.players[i].respawn = Respawn]

\* step_creatures, for creature c: it bites or steps towards the nearest player.
StepCreature(w, c) ==
    LET at == w.creatures[c].at
        prey == Nearest(w, at)
        i == Min(prey)
    IN  IF ~w.creatures[c].alive \/ prey = {} THEN w
        ELSE IF Apart(w.players[i].at, at) <= 1 THEN Bite(w, i)
        ELSE [w EXCEPT !.creatures[c].at = Towards(w, at, w.players[i].at)]

Upto(n) == [k \in 1 .. n |-> k - 1]
StepPlayers(w) == FoldLeft(StepPlayer, w, Upto(Players))
StepShots(w) == FoldLeft(LAMBDA v, s : StepShot(v, s, Speed), w, Upto(Shots))
StepCreatures(w) == IF w.tick % 2 = 1 THEN w ELSE FoldLeft(StepCreature, w, Upto(Creatures))

\* step_respawns: a player whose wait is over returns on some floor tile.
Waiting(w) == {i \in 0 .. Players - 1 : ~w.players[i].alive /\ w.players[i].respawn > 0}
Returning(w) == {i \in Waiting(w) : w.players[i].respawn = 1}
StepRespawns(w, tile) ==
    [w EXCEPT !.players = [i \in 0 .. Players - 1 |->
        LET p == w.players[i] IN
        IF i \notin Waiting(w) THEN p
        ELSE IF i \notin Returning(w) THEN [p EXCEPT !.respawn = @ - 1]
        ELSE [p EXCEPT !.respawn = 0, !.at = tile[i], !.alive = TRUE, !.hp = Hits]]]

\* game_tick, after some player's input arrived (game_set_input).
GameTick ==
    /\ world.tick < MaxTicks
    /\ \E i \in 0 .. Players - 1, in \in Inputs :
       \E w \in {StepCreatures(StepShots(StepPlayers([world EXCEPT !.players[i].input = in])))} :
       \E tile \in [Returning(w) -> Spawns \ walls] :
           world' = [StepRespawns(w, tile) EXCEPT !.tick = @ + 1]
    /\ UNCHANGED <<walls, stacked>>

CaveNext == GameTick
CaveSpec == CaveInit /\ [][CaveNext]_caveVars

----------------------------------------------------------------------------
\* serialize_state: every player, then the live creatures and shots, packed.
Packed(table, n) == SelectSeq([k \in 1 .. n |-> table[k - 1]], LAMBDA e : e.alive)
SerializeState(w) ==
    [tick |-> w.tick,
     players |-> [i \in 0 .. Players - 1 |-> LET p == w.players[i] IN
                     [at |-> p.at, facing |-> p.facing, alive |-> p.alive, hp |-> p.hp, score |-> p.score]],
     creatures |-> Packed(w.creatures, Creatures), shots |-> Packed(w.shots, Shots)]

\* deserialize_state: the packed entries fill the tables from the front.
Unpacked(list, n, none) == [i \in 0 .. n - 1 |-> IF i < Len(list) THEN list[i + 1] ELSE none]
DeserializeState(b) ==
    [tick |-> b.tick, players |-> b.players,
     creatures |-> Unpacked(b.creatures, Creatures, [at |-> <<0, 0>>, alive |-> FALSE]),
     shots |-> Unpacked(b.shots, Shots, NoShot)]

\* The cave is one region: whoever is on floor can reach all of it.  (Looked at
\* when the map has just been made, and before the first tick.)
CaveConnected == world.tick \in {0, MaxTicks + 1} =>
    \E p \in Tiles \ walls : Flood(walls, {p}) = Tiles \ walls

\* Nobody is in a wall, and creatures stay apart unless they were placed together.
PlacesTaken ==
    /\ \A i \in 0 .. Players - 1 : world.players[i].alive => IsFloor(walls, world.players[i].at)
    /\ \A c \in 0 .. Creatures - 1 : IsFloor(walls, world.creatures[c].at)
    /\ \A s \in 0 .. Shots - 1 : world.shots[s].alive => IsFloor(walls, world.shots[s].at)
    /\ \A c, e \in {x \in 0 .. Creatures - 1 : world.creatures[x].alive} :
           c # e /\ world.creatures[c].at = world.creatures[e].at => {c, e} \in stacked

\* Every creature killed was scored once, by one player; a live player has hit
\* points and a dead one none.
ScoresExact ==
    /\ FoldLeft(LAMBDA n, i : n + world.players[i].score, 0, Upto(Players)) =
           10 * Cardinality({c \in 0 .. Creatures - 1 : ~world.creatures[c].alive})
    /\ \A i \in 0 .. Players - 1 : world.players[i].alive <=> world.players[i].hp > 0

\* A client that is sent the state shows the world the server has.
SeenAsItIs ==
    LET view == DeserializeState(SerializeState(world))
    IN  /\ Packed(view.creatures, Creatures) = Packed(world.creatures, Creatures)
        /\ Packed(view.shots, Shots) = Packed(world.shots, Shots)

\* What a player of the game can rely on.
CaveSound == CaveConnected /\ PlacesTaken /\ ScoresExact /\ SeenAsItIs
=============================================================================
