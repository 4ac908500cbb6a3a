----------------------------- MODULE ExecLoader -----------------------------
(***************************************************************************)
(* The two parts of exec that read a binary themselves: load_pie           *)
(* (PieLoader) and extract_main_addr (MainAddr).  They have no variable in *)
(* common.                                                                 *)
(***************************************************************************)
EXTENDS PieLoader

CONSTANTS Regs, Immediates, AddImms, LdrImms, Programs, EntryWord, PageWords, ScanLimit,
          ImmBits, IntBits, Shift, BadSlots

VARIABLES code, bad, result

mainVars == <<code, bad, result>>

M == INSTANCE MainAddr

\* MainAddr!FindsMain: on code of the form its comment describes,
\* extract_main_addr returns what the ldr loads.
FindsMain == M!FindsMain
=============================================================================
