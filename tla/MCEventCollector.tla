-------------------------- MODULE MCEventCollector --------------------------
(***************************************************************************)
(* Bounds for EventCollector: one flow, whose server sends a cohort of two *)
(* neutral wrappers, or one after inventory hydration, or a live wrapper.  *)
(***************************************************************************)
EXTENDS EventCollector

Wrapper(kind, count, destination) ==
    [flow |-> "f", kind |-> kind, count |-> count, destination |-> destination]

MCWires ==
    {<<Wrapper("storage_record", 2, "d"), Wrapper("storage_record", 1, "e")>>,
     <<Wrapper("inventory_snapshot", 1, None), Wrapper("storage_record", 2, "d")>>,
     <<Wrapper("storage_delta", 2, None)>>}
=============================================================================
