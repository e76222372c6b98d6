------------------------- MODULE LedgerRefinement -------------------------
(***************************************************************************)
(* The event processor implements the warehouse ledger: the ledger's stock *)
(* is inventory_by_product_zone, and its step is the batch.                *)
(***************************************************************************)
EXTENDS EventProcessor

Ledger == INSTANCE WarehouseLedger
            WITH stock   <- inventory_by_product_zone,
                 order   <- orders_by_id,
                 outcome <- processed_events,
                 version <- entity_versions

\* Every batch of EventProcessor.process has, on the stock, the orders, the
\* outcomes and the versions, exactly the effect the ledger promises of its
\* event (docs/task.md:115-125), and nothing else touches them: whatever was
\* read and cached row by row, whatever failed, and whatever was delivered
\* twice.
LedgerSpec == Ledger!Spec
============================================================================
