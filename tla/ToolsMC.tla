------------------------------ MODULE ToolsMC ------------------------------
(* The compiler's passes and the developer tools, component by component:   *)
(* each behaviour explores the one `focus` names.                           *)
EXTENDS Lowering, Checker, Integers, Sequences, FiniteSets

CONSTANTS Foci, MaxUnits, Width, INDENT

VARIABLES focus,
          ct_classes, ct_table, ct_units, ct_wrong,
          fmt_text, fmt_result, fmt_again

Ct == INSTANCE ClassTable WITH classes <- ct_classes, table <- ct_table, units <- ct_units,
                               wrong <- ct_wrong
Fmt == INSTANCE Formatter WITH text <- fmt_text, result <- fmt_result, again <- fmt_again

ct == <<ct_classes, ct_table, ct_units, ct_wrong>>
fmt == <<fmt_text, fmt_result, fmt_again>>
toolsVars == <<focus, lvars, kvars, ct, fmt>>

Off == "off"   \* the state of a component another behaviour explores
ToolsInit ==
    /\ focus \in Foci
    /\ IF focus = "lowering" THEN LInit
       ELSE prog = Off /\ tier = Off /\ phase = Off /\ mach = Off /\ plain = Off
    /\ IF focus = "checker" THEN KInit
       ELSE subject = Off /\ verdict = Off
    /\ IF focus = "classTable" THEN Ct!TInit
       ELSE ct_classes = Off /\ ct_table = Off /\ ct_units = Off /\ ct_wrong = Off
    /\ IF focus = "formatter" THEN Fmt!FInit
       ELSE fmt_text = Off /\ fmt_result = Off /\ fmt_again = Off

LoweringMoves == focus = "lowering" /\ LNext /\ UNCHANGED <<focus, kvars, ct, fmt>>
CheckerMoves == focus = "checker" /\ KNext /\ UNCHANGED <<focus, lvars, ct, fmt>>
CtMoves == focus = "classTable" /\ Ct!compile_and_run_unit /\ UNCHANGED <<focus, lvars, kvars, fmt>>
FmtMoves == focus = "formatter" /\ Fmt!FNext /\ UNCHANGED <<focus, lvars, kvars, ct>>

ToolsNext == LoweringMoves \/ CheckerMoves \/ CtMoves \/ FmtMoves
ToolsSpec == ToolsInit /\ [][ToolsNext]_toolsVars
----------------------------------------------------------------------------
(* Formatted source parses to the tree it was made from, and formatting it  *)
(* again changes nothing (quoin-fmt format.rs).                             *)
FormattingIsFaithful == focus = "formatter" => Fmt!FormatSucceeds /\ Fmt!FormatIdempotent
=============================================================================
