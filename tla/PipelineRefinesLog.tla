-------------------------- MODULE PipelineRefinesLog --------------------------
(* GatewayPipeline implements SampleLog.  The queue, the batch, the          *)
(* transaction and the threads are hidden: only what arrives, what is        *)
(* durable and what is broadcast can be seen.                                *)
EXTENDS GatewayPipeline

Log == INSTANCE SampleLog WITH received <- rx_msgs

\* The database and the dashboards each see the snapshots in the order of
\* arrival, at most once, and no row becomes durable behind the live stream.
ImplementsSampleLog == Log!LogSpec
=============================================================================
