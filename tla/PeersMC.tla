------------------------------ MODULE PeersMC ------------------------------
(* The parent's side of workers and extensions, component by component:     *)
(* each behaviour explores one of them, named by `focus`, and leaves the    *)
(* others alone.  They share no state; their own modules say how each       *)
(* corresponds to the code.  The components with theorems are extended, so  *)
(* that the run checks the very definitions the theorems are about.         *)
EXTENDS Conversation, Extension

CONSTANTS Foci, MaxSends, SrvLanes, MaxIds, MaxNested,
          MAX_DV_DEPTH, MyExt, OtherExt, HSlots, MaxGen, MaxMints, HExts, MaxEpoch, PSlots,
          PinKinds, Objects, HTasks, HLanes, MaxHostCalls

VARIABLES focus,
          wp_backing, wp_helper, wp_grip, wp_child, wp_awaiter, wp_outcome, wp_signalled, wp_body,
          wp_sent, wp_outbox, wp_funnel, wp_wire, wp_lane, wp_done, wp_life,
          srv_objects, srv_next_id, srv_wraps, srv_reap, srv_frames, srv_laneUp, srv_echoed,
          fc_message, fc_wireSeq, fc_damaged, fc_decoded,
          tbl_hslot, tbl_hlen, tbl_hfree, tbl_epoch, tbl_open, tbl_minted, tbl_refs, tbl_pslot,
          tbl_plen, tbl_pfree, tbl_names,
          ho_boot, ho_pins, ho_free, ho_announced, ho_installed, ho_proxies, ho_reap, ho_calls,
          ho_dispatch, ho_serving, ho_made, ho_issued, ho_undeclared, ho_again, ho_lost

Wp == INSTANCE WorkerProcess WITH backing <- wp_backing, helper <- wp_helper, grip <- wp_grip,
                                  child <- wp_child, awaiter <- wp_awaiter, outcome <- wp_outcome,
                                  signalled <- wp_signalled, body <- wp_body, sent <- wp_sent,
                                  outbox <- wp_outbox, funnel <- wp_funnel, wire <- wp_wire,
                                  lane <- wp_lane, done <- wp_done, life <- wp_life
Srv == INSTANCE ExtServer WITH objects <- srv_objects, next_id <- srv_next_id, wraps <- srv_wraps,
                               reap <- srv_reap, frames <- srv_frames, laneUp <- srv_laneUp,
                               echoed <- srv_echoed
Fc == INSTANCE FrameCodec WITH message <- fc_message, wireSeq <- fc_wireSeq, damaged <- fc_damaged,
                               decoded <- fc_decoded
Tbl == INSTANCE Tables WITH hslot <- tbl_hslot, hlen <- tbl_hlen, hfree <- tbl_hfree,
                            epoch <- tbl_epoch, open <- tbl_open, minted <- tbl_minted,
                            refs <- tbl_refs, pslot <- tbl_pslot, plen <- tbl_plen,
                            pfree <- tbl_pfree, names <- tbl_names
Ho == INSTANCE Hosting WITH boot <- ho_boot, pins <- ho_pins, free <- ho_free,
                            announced <- ho_announced, installed <- ho_installed,
                            proxies <- ho_proxies, reap <- ho_reap, calls <- ho_calls,
                            dispatch <- ho_dispatch, serving <- ho_serving, made <- ho_made,
                            issued <- ho_issued, undeclared <- ho_undeclared,
                            again <- ho_again, lost <- ho_lost
wp == <<wp_backing, wp_helper, wp_grip, wp_child, wp_awaiter, wp_outcome, wp_signalled, wp_body,
        wp_sent, wp_outbox, wp_funnel, wp_wire, wp_lane, wp_done, wp_life>>
srv == <<srv_objects, srv_next_id, srv_wraps, srv_reap, srv_frames, srv_laneUp, srv_echoed>>
fc == <<fc_message, fc_wireSeq, fc_damaged, fc_decoded>>
tbl == <<tbl_hslot, tbl_hlen, tbl_hfree, tbl_epoch, tbl_open, tbl_minted, tbl_refs, tbl_pslot,
         tbl_plen, tbl_pfree, tbl_names>>
ho == <<ho_boot, ho_pins, ho_free, ho_announced, ho_installed, ho_proxies, ho_reap, ho_calls,
        ho_dispatch, ho_serving, ho_made, ho_issued, ho_undeclared, ho_again, ho_lost>>
peersVars == <<focus, wp, extVars, srv, fc, tbl, ho, vars>>

Off == "off"   \* the state of a component another behaviour explores
PeersInit ==
    /\ focus \in Foci
    /\ Wp!WpInit /\ (focus # "worker" => wp_backing = "thread")
    /\ ExtInit /\ Init
    /\ IF focus = "server" THEN Srv!SrvInit
       ELSE srv_objects = Off /\ srv_next_id = Off /\ srv_wraps = Off /\ srv_reap = Off
              /\ srv_frames = Off /\ srv_laneUp = Off /\ srv_echoed = Off
    /\ IF focus = "codec" THEN Fc!CodecInit
       ELSE fc_message = Off /\ fc_wireSeq = Off /\ fc_damaged = Off /\ fc_decoded = Off
    /\ IF focus = "tables" THEN Tbl!TblInit
       ELSE tbl_hslot = Off /\ tbl_hlen = Off /\ tbl_hfree = Off /\ tbl_epoch = Off
              /\ tbl_open = Off /\ tbl_minted = Off /\ tbl_refs = Off /\ tbl_pslot = Off
              /\ tbl_plen = Off /\ tbl_pfree = Off /\ tbl_names = Off
    /\ IF focus = "hosting" THEN Ho!HostInit
       ELSE ho_boot = Off /\ ho_pins = Off /\ ho_free = Off /\ ho_announced = Off
              /\ ho_installed = Off /\ ho_proxies = Off /\ ho_reap = Off /\ ho_calls = Off
              /\ ho_dispatch = Off /\ ho_serving = Off /\ ho_made = Off /\ ho_issued = Off
              /\ ho_undeclared = Off /\ ho_again = Off /\ ho_lost = Off

WpMoves == focus = "worker" /\ Wp!WpNext /\ UNCHANGED <<focus, extVars, srv, fc, tbl, ho, vars>>
ExtMoves == focus = "extension" /\ ExtNext /\ UNCHANGED <<focus, wp, srv, fc, tbl, ho, vars>>
SrvMoves == focus = "server" /\ Srv!SrvNext /\ UNCHANGED <<focus, wp, extVars, fc, tbl, ho, vars>>
FcMoves == focus = "codec" /\ Fc!CodecNext /\ UNCHANGED <<focus, wp, extVars, srv, tbl, ho, vars>>
TblMoves == focus = "tables" /\ Tbl!TblNext /\ UNCHANGED <<focus, wp, extVars, srv, fc, ho, vars>>
HoMoves == focus = "hosting" /\ Ho!HostNext /\ UNCHANGED <<focus, wp, extVars, srv, fc, tbl, vars>>
CvMoves == focus = "conversation" /\ Next /\ UNCHANGED <<focus, wp, extVars, srv, fc, tbl, ho>>

PeersNext == WpMoves \/ ExtMoves \/ SrvMoves \/ FcMoves \/ TblMoves \/ HoMoves \/ CvMoves
PeersSpec == PeersInit /\ [][PeersNext]_peersVars
    /\ WF_wp(focus = "worker" /\ Wp!Threads)
    /\ \A c \in Convs : WF_vars(focus = "conversation" /\ CallerStep(c))
    /\ \A l \in Lanes : WF_vars(focus = "conversation" /\ PumpStep(l))
                        /\ WF_vars(focus = "conversation" /\ WorkerStep(l))
----------------------------------------------------------------------------
(* What the encoder writes the decoder reads back as the same frame, and a  *)
(* damaged frame is refused (quoin-ext-proto codec, encode_with_meta and    *)
(* decode_frame_with_meta); a host value that crosses as data comes back    *)
(* equal, and only the incarnation's own instances cross as references      *)
(* (extension.rs value_to_wire, wire_to_value, classify_arg).               *)
FramesSurvive == focus = "codec" => Fc!FramesRoundTrip /\ Fc!DamageIsRefused /\ Fc!ValuesRoundTrip
(* Ids that cross a boundary keep naming their object: a handle of an       *)
(* earlier call never reaches a reused slot (handle_table.rs), a hosted id  *)
(* and a proxy name the object they were made for (vm/call.rs hosted_get,   *)
(* worker_service.rs sub_proxy), and what a wrapper in an extension server  *)
(* holds is alive in the host (quoin-ext lib.rs).                           *)
ReferencesHold ==
    /\ focus = "tables" => Tbl!HandleNeverAliases /\ Tbl!HostedIdNamesItsObject
    /\ focus = "hosting" => Ho!OwnIdNamesItsObject /\ Ho!HostedIsHeld /\ Ho!FailedHostIsDown
    /\ focus = "server" => Srv!HeldIsLive /\ Srv!NoLeak
(* Whoever waits for a worker's end is told, with the terminal the worker   *)
(* reported or the reason it died, and finds it recorded; what the body     *)
(* sent arrives in its order, and a child whose spawn was given up is       *)
(* reaped (worker_spawn.rs, worker.rs join).                                *)
JoinEnds ==
    /\ Wp!JoinEnds /\ Wp!AbandonedChildReaped
    /\ [](Wp!JoinSeesTerminal /\ Wp!MailInOrder)
=============================================================================
