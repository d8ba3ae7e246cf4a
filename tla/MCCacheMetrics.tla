---------------------------- MODULE MCCacheMetrics ----------------------------
(* The torrent of MCPieceStorage.                                            *)
EXTENDS CacheMetrics, MCPieceStorage

QuietMetricsSpec == MetricsInit /\ [][MetricsStorageNext]_allVars
==============================================================================
