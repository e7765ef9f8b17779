------------------------------ MODULE RuntimeMC ------------------------------
(* The interpreter with its object model and compiled tier, shipped blocks, *)
(* the wake log, the debugger and the I/O layer, component by component:    *)
(* each behaviour explores the one `focus` names.  A component with         *)
(* theorems is extended, so that the run checks the very definitions they   *)
(* are about, the others are instances.                                     *)
EXTENDS Integers, TLC, Fibers

CONSTANTS Foci, UTasks, ThrowValues, MaxIds, MaxNatives, MaxRaises, DTasks, MaxBodies,
          MaxMixes, MaxLookups, MaxEpoch, BTasks, BNames, MaxDefines, MayCancel, ITasks,
          MaxObjs, MaxChanges, InstMoves, CTasks, CKeys, CTags,
          SMALL_LINEAR_MAX, MaxEntries, MaxCOps, LTasks, LTags, MaxElems, MaxLOps, Locals, W,
          MaxInsts, MaxDepth, TierTasks, ArgKinds, WarmThreshold, DirectWarm,
          BailTombstone, MaxRedefs, MaxCalls, Batches, IoTasks, MaxStreams,
          MayCancelIo, MaxChunks, WCap, PTasks, MaxBytes, MaxReads, MaxNest, DbgTasks,
          MainTask, MaxStops, MaxHandles

VARIABLES focus,
          uw_frames, uw_natives, uw_height, uw_ctl, uw_active, uw_ids, uw_raises, uw_given,
          uw_taken, uw_target, uw_past, uw_over,
          dp_chain, dp_mixes, dp_entries, dp_uncacheable, dp_epoch, dp_slot, dp_look, dp_cur, dp_dirty,
          cb_globals, cb_pending, cb_body, cb_defines,
          ob_cls, ob_epoch, ob_objs, ob_sites, ob_inst, ob_misread, ob_crashed,
          col_stores, col_op, col_panicked, col_begun,
          li_list, li_made, li_lop, li_lbegun,
          aot_tr, aot_cm, aot_it, aot_br, aot_insts,
          tr_bound, tr_pending, tr_registry, tr_bails, tr_cell, tr_queue, tr_epochs, tr_tasks,
          tr_gone, tr_stale, tr_calls,
          wl_process, wl_plan, wl_batch, wl_stress, wl_file, wl_pending, wl_drive, wl_world,
          wl_replay, wl_outcome,
          io_next, io_registry, io_leased, io_tombs, io_handle, io_op, io_result, io_cancel,
          io_reap, io_reaped,
          fs_hs, fs_tracked, fs_fd, fs_finish, fs_parked, fs_disk, fs_sent, fs_lost, fs_over,
          sp_os, sp_slot, sp_handle, sp_childReap, sp_waits, sp_stray, sp_vm,
          sf_rest, sf_rbuf, sf_call, sf_answer, sf_reads,
          pt_body, pt_types, pt_home, pt_arg, pt_phase, pt_packed, pt_sentArg, pt_answer, pt_taken,
          db_phase, db_dap, db_debug, db_frames, db_current, db_active, db_resumed, db_told,
          db_asked, db_stops, db_caught, db_nextFrame, db_trace

\* The programs a log is recorded for: a timed wait with a cancelled sibling,
\* a line of a session after an earlier one, and work between completions.
Work == <<"work", 0>>
Awaits == <<"io", 0>>
ReplayTasks == {0, 1, 2}
Short == [t \in ReplayTasks |-> IF t = 0 THEN <<Work>> ELSE <<>>]
Cancelling ==
    [t \in ReplayTasks |-> CASE t = 0 -> <<<<"timed", 1>>, <<"cancel", 2>>, Work>>
                             [] t = 1 -> <<Awaits, Work>> [] t = 2 -> <<Awaits>>]
Mixed ==
    [t \in ReplayTasks |-> CASE t = 0 -> <<<<"timed", 1>>>> [] t = 1 -> <<Work, Work, Awaits>> [] t = 2 -> <<Awaits, Work>>]
ReplayPrograms == {<<Short, Cancelling>>, <<Mixed>>}

Uw == INSTANCE Unwind WITH frames <- uw_frames, natives <- uw_natives, height <- uw_height,
                           ctl <- uw_ctl, active <- uw_active, ids <- uw_ids, raises <- uw_raises,
                           given <- uw_given, taken <- uw_taken, target <- uw_target,
                           past <- uw_past, over <- uw_over
Dp == INSTANCE Dispatch WITH chain <- dp_chain, mixes <- dp_mixes, entries <- dp_entries,
                             uncacheable <- dp_uncacheable, epoch <- dp_epoch, slot <- dp_slot,
                             look <- dp_look, cur <- dp_cur, dirty <- dp_dirty
Cb == INSTANCE ClassBody WITH globals <- cb_globals, pending <- cb_pending, body <- cb_body,
                              defines <- cb_defines
Ob == INSTANCE Instances WITH cls <- ob_cls, epoch <- ob_epoch, objs <- ob_objs, sites <- ob_sites,
                              inst <- ob_inst, misread <- ob_misread, crashed <- ob_crashed
Col == INSTANCE Collections WITH stores <- col_stores, op <- col_op, panicked <- col_panicked,
                                 begun <- col_begun, list <- li_list, made <- li_made,
                                 lop <- li_lop, lbegun <- li_lbegun
Li == INSTANCE Lists WITH list <- li_list, made <- li_made, lop <- li_lop, lbegun <- li_lbegun
Aot == INSTANCE AotTranslate WITH tr <- aot_tr, cm <- aot_cm, it <- aot_it, br <- aot_br,
                                  insts <- aot_insts
Tr == INSTANCE Tiering WITH bound <- tr_bound, pending <- tr_pending, registry <- tr_registry,
                            bails <- tr_bails, cell <- tr_cell, queue <- tr_queue,
                            epochs <- tr_epochs, tasks <- tr_tasks, gone <- tr_gone,
                            stale <- tr_stale, calls <- tr_calls
Wl == INSTANCE WakeLog WITH Tasks <- ReplayTasks, Programs <- ReplayPrograms,
                            process <- wl_process, plan <- wl_plan, batch <- wl_batch,
                            stress <- wl_stress, file <- wl_file, pending <- wl_pending,
                            drive <- wl_drive, world <- wl_world, replay <- wl_replay,
                            outcome <- wl_outcome
Io == INSTANCE IoHandles WITH next <- io_next, registry <- io_registry, leased <- io_leased,
                              tombs <- io_tombs, handle <- io_handle, op <- io_op,
                              result <- io_result, cancel <- io_cancel, reap <- io_reap,
                              reaped <- io_reaped
Fs == INSTANCE FileStreams WITH hs <- fs_hs, tracked <- fs_tracked, fd <- fs_fd,
                                finish <- fs_finish, parked <- fs_parked, disk <- fs_disk,
                                sent <- fs_sent, lost <- fs_lost, over <- fs_over
Sp == INSTANCE Subprocess WITH os <- sp_os, slot <- sp_slot, handle <- sp_handle,
                               childReap <- sp_childReap, waits <- sp_waits, stray <- sp_stray,
                               vm <- sp_vm
Sf == INSTANCE StreamFraming WITH rest <- sf_rest, rbuf <- sf_rbuf, call <- sf_call,
                                  answer <- sf_answer, reads <- sf_reads
Pt == INSTANCE Portable WITH body <- pt_body, types <- pt_types, home <- pt_home, arg <- pt_arg,
                             phase <- pt_phase, packed <- pt_packed, sentArg <- pt_sentArg,
                             answer <- pt_answer, taken <- pt_taken
Db == INSTANCE Debugger WITH phase <- db_phase, dap <- db_dap, debug <- db_debug,
                             frames <- db_frames, current <- db_current, active <- db_active,
                             resumed <- db_resumed, told <- db_told, asked <- db_asked,
                             stops <- db_stops, caught <- db_caught, nextFrame <- db_nextFrame,
                             trace <- db_trace

uw == <<uw_frames, uw_natives, uw_height, uw_ctl, uw_active, uw_ids, uw_raises, uw_given, uw_taken,
        uw_target, uw_past, uw_over>>
dp == <<dp_chain, dp_mixes, dp_entries, dp_uncacheable, dp_epoch, dp_slot, dp_look, dp_cur, dp_dirty>>
cb == <<cb_globals, cb_pending, cb_body, cb_defines>>
fb == fiberVars
ob == <<ob_cls, ob_epoch, ob_objs, ob_sites, ob_inst, ob_misread, ob_crashed>>
col == <<col_stores, col_op, col_panicked, col_begun>>
li == <<li_list, li_made, li_lop, li_lbegun>>
aot == <<aot_tr, aot_cm, aot_it, aot_br, aot_insts>>
tr == <<tr_bound, tr_pending, tr_registry, tr_bails, tr_cell, tr_queue, tr_epochs, tr_tasks,
        tr_gone, tr_stale, tr_calls>>
wl == <<wl_process, wl_plan, wl_batch, wl_stress, wl_file, wl_pending, wl_drive, wl_world,
        wl_replay, wl_outcome>>
io == <<io_next, io_registry, io_leased, io_tombs, io_handle, io_op, io_result, io_cancel, io_reap,
        io_reaped>>
fs == <<fs_hs, fs_tracked, fs_fd, fs_finish, fs_parked, fs_disk, fs_sent, fs_lost, fs_over>>
sp == <<sp_os, sp_slot, sp_handle, sp_childReap, sp_waits, sp_stray, sp_vm>>
sf == <<sf_rest, sf_rbuf, sf_call, sf_answer, sf_reads>>
pt == <<pt_body, pt_types, pt_home, pt_arg, pt_phase, pt_packed, pt_sentArg, pt_answer, pt_taken>>
db == <<db_phase, db_dap, db_debug, db_frames, db_current, db_active, db_resumed, db_told,
        db_asked, db_stops, db_caught, db_nextFrame, db_trace>>
runtimeVars == <<focus, uw, dp, cb, fb, ob, col, li, aot, tr, wl, io, fs, sp, sf, pt, db>>

Off == "off"   \* the state of a component another behaviour explores
RuntimeInit ==
    /\ focus \in Foci
    /\ IF focus = "unwind" THEN Uw!UnwindInit
       ELSE uw_frames = Off /\ uw_natives = Off /\ uw_height = Off /\ uw_ctl = Off
              /\ uw_active = Off /\ uw_ids = Off /\ uw_raises = Off /\ uw_given = Off
              /\ uw_taken = Off /\ uw_target = Off /\ uw_past = Off /\ uw_over = Off
    /\ IF focus = "dispatch" THEN Dp!DispInit
       ELSE dp_chain = Off /\ dp_mixes = Off /\ dp_entries = Off /\ dp_uncacheable = Off
              /\ dp_epoch = Off /\ dp_slot = Off /\ dp_look = Off /\ dp_cur = Off /\ dp_dirty = Off
    /\ IF focus = "classBody" THEN Cb!BodyInit
       ELSE cb_globals = Off /\ cb_pending = Off /\ cb_body = Off /\ cb_defines = Off
    /\ FiberInit /\ (focus # "fibers" => running = CHOOSE t \in FTasks : TRUE)
    /\ IF focus = "instances" THEN Ob!InstInit
       ELSE ob_cls = Off /\ ob_epoch = Off /\ ob_objs = Off /\ ob_sites = Off /\ ob_inst = Off
              /\ ob_misread = Off /\ ob_crashed = Off
    /\ IF focus = "collections" THEN Col!ColInit
       ELSE col_stores = Off /\ col_op = Off /\ col_panicked = Off /\ col_begun = Off
    /\ IF focus = "lists" THEN Li!ListInit
       ELSE li_list = Off /\ li_made = Off /\ li_lop = Off /\ li_lbegun = Off
    /\ IF focus = "aot" THEN Aot!AotInit
       ELSE aot_tr = Off /\ aot_cm = Off /\ aot_it = Off /\ aot_br = Off /\ aot_insts = Off
    /\ IF focus = "tiering" THEN Tr!TierInit
       ELSE tr_bound = Off /\ tr_pending = Off /\ tr_registry = Off /\ tr_bails = Off
              /\ tr_cell = Off /\ tr_queue = Off /\ tr_epochs = Off /\ tr_tasks = Off
              /\ tr_gone = Off /\ tr_stale = Off /\ tr_calls = Off
    /\ IF focus = "replay" THEN Wl!WlInit
       ELSE wl_process = Off /\ wl_plan = Off /\ wl_batch = Off /\ wl_stress = Off /\ wl_file = Off
              /\ wl_pending = Off /\ wl_drive = Off /\ wl_world = Off /\ wl_replay = Off
              /\ wl_outcome = Off
    /\ IF focus = "handles" THEN Io!IoInit
       ELSE io_next = Off /\ io_registry = Off /\ io_leased = Off /\ io_tombs = Off
              /\ io_handle = Off /\ io_op = Off /\ io_result = Off /\ io_cancel = Off
              /\ io_reap = Off /\ io_reaped = Off
    /\ IF focus = "files" THEN Fs!FileInit
       ELSE fs_hs = Off /\ fs_tracked = Off /\ fs_fd = Off /\ fs_finish = Off /\ fs_parked = Off
              /\ fs_disk = Off /\ fs_sent = Off /\ fs_lost = Off /\ fs_over = Off
    /\ IF focus = "process" THEN Sp!ProcInit
       ELSE sp_os = Off /\ sp_slot = Off /\ sp_handle = Off /\ sp_childReap = Off /\ sp_waits = Off
              /\ sp_stray = Off /\ sp_vm = Off
    /\ IF focus = "framing" THEN Sf!FrameInit
       ELSE sf_rest = Off /\ sf_rbuf = Off /\ sf_call = Off /\ sf_answer = Off /\ sf_reads = Off
    /\ IF focus = "portable" THEN Pt!PtInit
       ELSE pt_body = Off /\ pt_types = Off /\ pt_home = Off /\ pt_arg = Off /\ pt_phase = Off
              /\ pt_packed = Off /\ pt_sentArg = Off /\ pt_answer = Off /\ pt_taken = Off
    /\ IF focus = "debugger" THEN Db!BInit
       ELSE db_phase = Off /\ db_dap = Off /\ db_debug = Off /\ db_frames = Off /\ db_current = Off
              /\ db_active = Off /\ db_resumed = Off /\ db_told = Off /\ db_asked = Off
              /\ db_stops = Off /\ db_caught = Off /\ db_nextFrame = Off /\ db_trace = Off

UwMoves == focus = "unwind" /\ Uw!UnwindNext /\ UNCHANGED <<focus, dp, cb, fb, ob, col, li, aot,
                                                            tr, wl, io, fs, sp, sf, pt, db>>
DpMoves == focus = "dispatch" /\ Dp!DispNext /\ UNCHANGED <<focus, uw, cb, fb, ob, col, li, aot,
                                                            tr, wl, io, fs, sp, sf, pt, db>>
CbMoves == focus = "classBody" /\ Cb!BodyNext /\ UNCHANGED <<focus, uw, dp, fb, ob, col, li, aot,
                                                             tr, wl, io, fs, sp, sf, pt, db>>
FbMoves == focus = "fibers" /\ FiberNext /\ UNCHANGED <<focus, uw, dp, cb, ob, col, li, aot, tr,
                                                           wl, io, fs, sp, sf, pt, db>>
ObMoves == focus = "instances" /\ Ob!InstNext /\ UNCHANGED <<focus, uw, dp, cb, fb, col, li, aot,
                                                             tr, wl, io, fs, sp, sf, pt, db>>
ColMoves == focus = "collections" /\ Col!ColNext /\ UNCHANGED <<focus, uw, dp, cb, fb, ob, li, aot,
                                                                tr, wl, io, fs, sp, sf, pt, db>>
LiMoves == focus = "lists" /\ Li!ListNext /\ UNCHANGED <<focus, uw, dp, cb, fb, ob, col, aot, tr,
                                                         wl, io, fs, sp, sf, pt, db>>
AotMoves == focus = "aot" /\ Aot!AotNext /\ UNCHANGED <<focus, uw, dp, cb, fb, ob, col, li, tr, wl,
                                                        io, fs, sp, sf, pt, db>>
TrMoves == focus = "tiering" /\ Tr!TierNext /\ UNCHANGED <<focus, uw, dp, cb, fb, ob, col, li, aot,
                                                           wl, io, fs, sp, sf, pt, db>>
WlMoves == focus = "replay" /\ Wl!WlNext /\ UNCHANGED <<focus, uw, dp, cb, fb, ob, col, li, aot,
                                                        tr, io, fs, sp, sf, pt, db>>
IoMoves == focus = "handles" /\ Io!IoNext /\ UNCHANGED <<focus, uw, dp, cb, fb, ob, col, li, aot,
                                                         tr, wl, fs, sp, sf, pt, db>>
FsMoves == focus = "files" /\ Fs!FileNext /\ UNCHANGED <<focus, uw, dp, cb, fb, ob, col, li, aot,
                                                         tr, wl, io, sp, sf, pt, db>>
SpMoves == focus = "process" /\ Sp!ProcNext /\ UNCHANGED <<focus, uw, dp, cb, fb, ob, col, li, aot,
                                                           tr, wl, io, fs, sf, pt, db>>
SfMoves == focus = "framing" /\ Sf!FrameNext /\ UNCHANGED <<focus, uw, dp, cb, fb, ob, col, li,
                                                            aot, tr, wl, io, fs, sp, pt, db>>
PtMoves == focus = "portable" /\ Pt!PtNext /\ UNCHANGED <<focus, uw, dp, cb, fb, ob, col, li, aot,
                                                          tr, wl, io, fs, sp, sf, db>>
DbMoves == focus = "debugger" /\ Db!BNext /\ UNCHANGED <<focus, uw, dp, cb, fb, ob, col, li, aot,
                                                         tr, wl, io, fs, sp, sf, pt>>

RuntimeNext == UwMoves \/ DpMoves \/ CbMoves \/ FbMoves \/ ObMoves \/ ColMoves \/ LiMoves \/ AotMoves \/ TrMoves \/ WlMoves \/ IoMoves \/ FsMoves \/ SpMoves \/ SfMoves \/ PtMoves \/ DbMoves
\* Only Unwind knows UTasks, and it treats them alike.
UnwindSymmetry == Permutations(UTasks)
RuntimeSpec == RuntimeInit /\ [][RuntimeNext]_runtimeVars
----------------------------------------------------------------------------
(* With several tasks, natives and compiled methods on one stack: operands  *)
(* are those the running frame pushed, a handler is given the error raised  *)
(* under it as long as no throw stayed behind in the VM's one slot, and a   *)
(* cancel is not masked by a handler, nor by a finally block that it forced *)
(* (block.rs do_catch and do_catch_finally, invoke.rs finish_frame).        *)
UnwindingIsSound == focus = "unwind" => Uw!StackBalanced /\ Uw!ThrowReachesHandler /\ Uw!CancelWins
(* The method a lookup answers from the memo or an inline cache is the one  *)
(* a fresh walk of the classes finds, through definitions, mixins and       *)
(* guards that run code, reopen the class and send the same selector        *)
(* (dispatch.rs lookup, invalidate_method_cache).                           *)
DispatchIsCurrent == focus = "dispatch" => Dp!CachedIsCurrent /\ Dp!InlineIsCurrent
(* A class body that fails takes back the name it registered and no other   *)
(* (exec.rs DefineClass, pending_class_def); an object's fields are read at *)
(* the slots of their own names, every binding of a new: block reaches its  *)
(* slot, and every initializer of the hierarchy runs once (vm/class.rs,     *)
(* exec.rs field caches).                                                   *)
ObjectsAreWhole ==
    /\ focus = "classBody" => Cb!FailureUnregistersOwn
    /\ focus = "instances" => Ob!FieldsAreOwn /\ Ob!BoundFieldsLand /\ Ob!InitsAllRun
(* A map's index names the positions of its entries, elements fit the       *)
(* declared tag, the fast paths answer as the methods do, an operation that *)
(* ran guest code still acts on the entry of its own key, and a sort with   *)
(* guest code in its comparisons ends sorted (map.rs, set.rs, list.rs,      *)
(* devirt_ops.rs).                                                          *)
CollectionsHold ==
    /\ focus = "collections" => Col!IndexIsTrue /\ Col!ElementsFitTag /\ Col!FastPathAgrees
                                /\ Col!ActsOnOwnEntry
    /\ focus = "lists" => Li!ListFitsTag /\ Li!SortSorts
(* Compiled code computes what the interpreter computes, keeps each local   *)
(* where its readers look for it, is entered only with the argument kinds   *)
(* it was compiled for, and never after its method was redefined (codegen   *)
(* emit.rs, registry.rs, spec.rs).                                          *)
CompiledIsFaithful ==
    /\ focus = "aot" => Aot!CompiledAgrees /\ Aot!StorageIsTrue
    /\ focus = "tiering" => Tr!LaneKindsHold /\ Tr!EntersCurrent /\ Tr!TombstonedStays
(* Replaying a log takes the recorded picks, deliveries and rotations, or   *)
(* says where it diverged (replay.rs, runner_driver.rs).                    *)
ReplayIsFaithful == focus = "replay" => Wl!ReplayIsFaithful
(* A closed stream is never put back by an operation that was in flight; a  *)
(* file holds every chunk written before the program's end; a child process *)
(* has somebody who reaps it; a read that asks for everything, or for a     *)
(* delimiter, is answered from the whole input (io_backend_smol.rs,         *)
(* streams.rs, process.rs).                                                 *)
StreamsAreKept ==
    /\ focus = "handles" => Io!ClosedStaysClosed
    /\ focus = "files" => Fs!FileComplete
    /\ focus = "process" => Sp!ChildOwned
    /\ focus = "framing" => Sf!AnswerForWholeInput
(* A step that stops in its own task does so in the frame it began in, or  *)
(* once that is gone in a caller or the caller's next callee, whatever is   *)
(* called, raised or awaited meanwhile; a breakpoint in the way still       *)
(* stops; what a handler is given is what was raised; and handles given out *)
(* at one stop are not honoured at the next (debug.rs, runner_dap.rs).      *)
DebuggerStopsRight ==
    focus = "debugger" => /\ Db!StepLandsWhereAsked /\ Db!BreakpointsStop
                          /\ Db!CaughtIsThrown /\ Db!HandlesAreOfThisStop
(* A block that is shipped to a worker answers there what it answers at     *)
(* home, or is refused, and the compiler's verdict on a block literal is    *)
(* what shipping it does (worker.rs snapshot_block, portability.rs).        *)
ShippingAgrees == focus = "portable" => Pt!ShippedBlockAgrees /\ Pt!VerdictIsTrue
=============================================================================
