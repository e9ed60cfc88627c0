----------------------------- MODULE MCPrograms ------------------------------
(***************************************************************************)
(* Small instances of the programs and devices that are checked on their   *)
(* own.  The first state picks one, and only that one's module runs; the   *)
(* state of the others does not change.                                    *)
(***************************************************************************)
EXTENDS NcReplay, Naturals

VARIABLES program, v1, v2, v3, v4, v5, v6, v7, v8, v9, v10, v11, v12, v13, v14

pool == <<v1, v2, v3, v4, v5, v6, v7, v8, v9, v10, v11, v12, v13, v14>>
all == <<program, pool, replayVars>>

Unused == "unused"
tail8 == <<v8, v9, v10, v11, v12, v13, v14>>
tail10 == <<v10, v11, v12, v13, v14>>
tail11 == <<v11, v12, v13, v14>>
tail6 == <<v6, v7, tail8>>
tail4 == <<v4, v5, tail6>>
Off11 == v11 = Unused /\ v12 = Unused /\ v13 = Unused /\ v14 = Unused
Off10 == v10 = Unused /\ v11 = Unused /\ v12 = Unused /\ v13 = Unused /\ v14 = Unused
Off8 == v8 = Unused /\ v9 = Unused /\ Off10
Off6 == v6 = Unused /\ v7 = Unused /\ Off8
Off4 == v4 = Unused /\ v5 = Unused /\ Off6
PoolOff == v1 = Unused /\ v2 = Unused /\ v3 = Unused /\ Off4

Timers == INSTANCE IoxTimer WITH
    Delays <- {0, 1}, Milli <- 2, FirstMax <- 2, MaxAdds <- 6, MaxRemoves <- 1, MaxNow <- 2,
    entry <- v1, max <- v2, next_id <- v3, now <- v4, t <- v5, running <- v6, live <- v7,
    removes <- v8, early <- v9

Events == INSTANCE IoxLoop WITH
    Fds <- {1, 2}, Signals <- {5, 6}, MaxFds <- 4, MaxSignals <- 2, PipeRoom <- 2, BufSize <- 2,
    MaxCalls <- 4, MaxRaised <- 2,
    fds <- v1, compact_needed <- v2, i <- v3, n <- v4, pipe <- v5, buf <- v6, k <- v7,
    sig_table <- v8, pc <- v9, caller <- v10, owed <- v11, raised <- v12, calls <- v13,
    wrong <- v14

Tones == {[len |-> l, loop_start |-> 0, loop |-> p, enable |-> TRUE, freq |-> q] :
              l \in {1, 2}, p \in BOOLEAN, q \in {1, 4}}

Sound == INSTANCE TritonAudio WITH
    Channels <- {0, 1}, High <- {1}, Notes <- Tones, Unit <- 2, Frames <- 2, Threaded <- FALSE,
    MaxGuest <- 3, MaxBatches <- 2,
    chan <- v1, regs <- v2, gctrl <- v3, IRQ_ENABLE <- v4, IRQ_STATUS <- v5, irq_pending <- v6,
    main <- v7, cpu <- v8, mixer <- v9, fired <- v10, guest <- v11, batches <- v12,
    unserved <- v13, unread <- v14

Given == INSTANCE MCInputs

DosNet == INSTANCE IpxGame WITH
    Window <- 2, UnrelQ <- 1, EventQ <- 3, Modulus <- 8, ConnectRetries <- 1, Attempts <- 1,
    Seats <- {0, 1}, Addrs <- {1}, Chunks <- 2, Drain <- 1, NetRoom <- 2, MaxId <- 3,
    MaxFrames <- 4, MaxExtras <- 2,
    srv <- v1, cli <- v2, net <- v3, ids <- v4, budget <- v5, wrote <- v6

DosDriver == INSTANCE IpxDriver WITH
    Recv <- 3, Send <- 2, MaxArrive <- 3, MaxOut <- 3,
    recv_ecb <- v1, posted <- v2, next_recv <- v3, scan <- v4, send_ecb <- v5, arrived <- v6,
    received <- v7, given <- v8, wire <- v9, missed <- v10

\* Noise in two columns, with gaps: caves of one region and of two.
Columns == {{<<x, y>> : x \in {5, 6}, y \in 1 .. 4} \ gap : gap \in SUBSET {<<5, 2>>, <<5, 3>>, <<6, 3>>}}

Cave == INSTANCE IpxCave WITH
    W <- 12, H <- 6, Noises <- {{}} \cup Columns, Spawns <- {<<2, 2>>, <<4, 3>>, <<7, 2>>},
    Players <- 2, Creatures <- 2, Shots <- 1, Hits <- 2, Range0 <- 1, Respawn <- 2,
    Inputs <- {<<15, 15>>, <<2, 15>>, <<5, 6>>}, MaxTicks <- 3,
    walls <- v1, world <- v2, stacked <- v3

Compiled == INSTANCE Compiler WITH
    B <- 3, Cells <- 100, ArenaCells <- 20, LogFuel <- 10, RegCounts <- {1, 2, 6}, Programs <- Given!ManyPrograms,
    prog <- v1, stage <- v2, nregs <- v3, fns <- v4, data <- v5, status <- v6

Display == INSTANCE Quaoar WITH
    Slots <- {1}, MaxFd <- 4, BufUnits <- 3, MaxHandlers <- 2, MaxInputs <- 4, ProbeWhileShown <- FALSE,
    conn <- v1, file <- v2, tcpq <- v3, unixq <- v4, ws_fd <- v5, apps <- v6, next_app_id <- v7, batch <- v8,
    stray <- v9

Raster == INSTANCE Glide WITH
    W <- 4, H <- 3, TexBytes <- 16, FogSize <- 6, Scenes <- Given!GlideScenes, Tried <- Given!GlideTried,
    g <- v1, m <- v2, scene <- v3, done <- v4, shown <- v5

ProgramInit ==
    \/ program = "replay" /\ ReplayInit /\ PoolOff
    \/ /\ ReplayInit
       /\ \/ program = "timers" /\ Timers!TimerInit /\ Off10
          \/ program = "events" /\ Events!LoopInit
          \/ program = "sound" /\ Sound!AudioInit
          \/ program = "dos net" /\ DosNet!GameInit /\ v7 = Unused /\ Off8
          \/ program = "dos driver" /\ DosDriver!DriverInit /\ Off11
          \/ program = "cave" /\ Cave!CaveInit /\ Off4
          \/ program = "compiler" /\ Compiled!Init /\ v7 = Unused /\ Off8
          \/ program = "display" /\ Display!QuInit /\ Off10
          \/ program = "glide" /\ Raster!GlideInit /\ Off6

ProgramNext ==
    /\ UNCHANGED program
    /\ \/ program = "replay" /\ ReplayNext /\ UNCHANGED pool
       \/ /\ UNCHANGED replayVars
          /\ \/ program = "timers" /\ Timers!TimerNext /\ UNCHANGED tail10
             \/ program = "events" /\ Events!LoopNext
             \/ program = "sound" /\ Sound!AudioNext
             \/ program = "dos net" /\ DosNet!GameNext /\ UNCHANGED <<v7, tail8>>
             \/ program = "dos driver" /\ DosDriver!DriverNext /\ UNCHANGED tail11
             \/ program = "cave" /\ Cave!CaveNext /\ UNCHANGED tail4
             \/ program = "compiler" /\ Compiled!Next /\ UNCHANGED <<v7, tail8>>
             \/ program = "display" /\ Display!QuNext /\ UNCHANGED tail10
             \/ program = "glide" /\ Raster!GlideNext /\ UNCHANGED tail6

ProgramSpec == ProgramInit /\ [][ProgramNext]_all

----------------------------------------------------------------------------



\* The allocator keeps values that are alive together apart, and compiled code
\* returns what its program says (Compiler).
CompiledExactly == program = "compiler" => Compiled!CompiledExactly

=============================================================================
