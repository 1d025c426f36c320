---------------------------- MODULE MCLifecycles ----------------------------
(* The lifecycles of the repository's parts in one run: the MCP components, *)
(* the pin cache, the kits, the repository context and the packages.  They  *)
(* share no state, so one of them runs in a behaviour and the others stay   *)
(* as they began; the states of the run are those of the five taken one by  *)
(* one.                                                                     *)
EXTENDS McpLifecycle, PinCache, KitLifecycle, RepoContext, KitExport, TLC

CONSTANTS f1, f2, p1, p2

VARIABLE part

allvars == <<mvars, pinvars, kitvars, ctxvars, exportvars, part>>

MCOrigins == {<<>>, <<Other, Other>>, <<Section("visio", 0)>>}
MCKits == {"kit", "platform"}
MCInOrder == [S \in SUBSET MCKits |-> SelectSeq(<<"kit", "platform">>, LAMBDA k : k \in S)]
MCFacts == {"a" :> 1, "a" :> 1 @@ "b" :> 1, "a" :> 2 @@ "b" :> 1}

LInit ==
    /\ part \in {"mcp", "pin", "kit", "context", "export"}
    /\ McpInit /\ PinInit /\ KitInit /\ CtxInit /\ ExportInit
    /\ part # "mcp" => config = <<>>
    /\ pinned \in IF part = "pin" THEN {{}, Pins} ELSE {{}}
    /\ part # "context" => facts = "a" :> 1
    /\ part # "kit" => plugin = Absent /\ link = "none"

\* The processes of a part that do the same are alike, and each call is a process of its own:
\* a and b make their calls in turn.
InTurn(made, a, b, pc, next) ==
    LET other == IF made % 2 = 0 THEN b ELSE a IN next[other] = pc[other]
McpPart ==
    /\ part = "mcp" /\ McpNext /\ (mcalls' # mcalls => InTurn(mcalls, p1, p2, mpc, mpc'))
    /\ UNCHANGED <<pinvars, kitvars, ctxvars, exportvars, part>>
PinPart ==
    /\ part = "pin" /\ PinNext /\ (prefetches' # prefetches => InTurn(prefetches, f1, f2, fpc, fpc'))
    /\ UNCHANGED <<mvars, kitvars, ctxvars, exportvars, part>>
KitPart == part = "kit" /\ KitNext /\ UNCHANGED <<mvars, pinvars, ctxvars, exportvars, part>>
\* Bounds: the last call on the context is alone, after two that may have been at work at
\* once; and while these two are, nobody edits a file, which their own writes may spoil.
CtxPart ==
    /\ part = "context" /\ CtxNext /\ (xcalls' # xcalls => InTurn(xcalls, p1, p2, xpc, xpc'))
    /\ (xcalls' = MaxCtxCalls => single') /\ (edits' # edits => single)
    /\ UNCHANGED <<mvars, pinvars, kitvars, exportvars, part>>
ExportPart ==
    /\ part = "export" /\ ExportNext /\ (exports' # exports => InTurn(exports, 1, 2, exportpc, exportpc'))
    /\ UNCHANGED <<mvars, pinvars, kitvars, ctxvars, part>>

LNext == McpPart \/ PinPart \/ KitPart \/ CtxPart \/ ExportPart

LSpec == LInit /\ [][LNext]_allvars
=============================================================================
