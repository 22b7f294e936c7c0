---------------------------- MODULE MCLakeLanes ----------------------------
(***************************************************************************)
(* One run for the lanes around the lake that do not act on each other: the *)
(* initial state chooses the lane that runs, the others stand still.        *)
(***************************************************************************)
EXTENDS ShipCar, LakeReader, LakeAudit, LakeReadback, LargeExport, LargeImport,
        OriginBridge, RouterStandby

CONSTANT Lanes      \* those of this run

VARIABLE lane

TheRanges == {<<0, 2>>}
TheManifests == {{}, {2}}
TheSizes == [o \in Objects |-> IF o = "small" THEN 1 ELSE 3]

shipOnly == <<localVars, sourceVars, transitVars, boundVars, pc, rng, uploads,
              rawStore, recovery, jobs>>
nodeOnly == <<direct, recovered, raw, nativeVars, stamps, clock, released, kills>>
nodeLaneVars == <<nodeOnly, readerVars, auditVars, scanVars>>
hostVars == <<largeExportVars, largeImportVars, bridgeVars, routerVars>>
lanesVars == <<importVars, shipOnly, nodeLaneVars, hostVars, lane>>

LanesInit ==
  /\ lane \in Lanes
  /\ ShipInit /\ ReaderInit /\ AuditInit /\ ReadbackInit
  /\ LargeExportInit /\ LargeImportInit /\ BridgeInit /\ StandbyInit
  /\ lane # "ship" => mode = "plain"
  /\ lane # "audit" => amode = "receipts"
  /\ lane # "readback" => gaps

Ship(next) == lane = "ship" /\ next /\ UNCHANGED <<nodeLaneVars, hostVars, lane>>

OnNode(l, next) ==
  lane = l /\ next /\ UNCHANGED <<shipOnly, hostVars, lane>>

\* One request over a node on which time passes and pins are released, or two
\* at a time over one where neither happens.
ReaderLane ==
  \/ /\ OnNode("reader", ReaderNext /\ UNCHANGED <<auditVars, scanVars, kills, recovered>>)
     /\ at'["u"] = "idle" /\ answer'["u"] = 0
  \/ /\ OnNode("threads", ReaderNext /\ UNCHANGED <<auditVars, scanVars, kills, recovered>>)
     /\ UNCHANGED <<nativeVars, released, clock>>
     /\ \A t \in Threads : asked'[t] < 2

AuditLane ==
  OnNode("audit",
    AuditNext /\ UNCHANGED <<readerVars, scanVars, nativeVars, clock, kills>>)

OnReadback(next) ==
  OnNode("readback", next /\ UNCHANGED <<readerVars, auditVars, clock, released, recovered>>)

OnHost(l, next) ==
  lane = l /\ next /\ UNCHANGED <<importVars, shipOnly, nodeLaneVars, lane>>

\* The last of the three cuts comes while a run is at the first row: three in
\* a row are what an overtaken file takes.
OnExport(next) ==
  /\ OnHost("export", next /\ UNCHANGED <<largeImportVars, bridgeVars, routerVars>>)
  /\ cuts' # cuts /\ cuts' = MaxCuts => brow = 1

OnImport(next) ==
  OnHost("import", next /\ UNCHANGED <<largeExportVars, bridgeVars, routerVars>>)
OnBridge(next) ==
  OnHost("bridge", next /\ UNCHANGED <<largeExportVars, largeImportVars, routerVars>>)
OnStandby(next) ==
  OnHost("standby", next /\ UNCHANGED <<largeExportVars, largeImportVars, bridgeVars>>)

LanesNext ==
  \/ Ship(ShipNext) \/ ReaderLane \/ AuditLane \/ OnReadback(ReadbackNext)
  \/ OnExport(LargeExportNext) \/ OnImport(LargeImportNext)
  \/ OnBridge(BridgeNext) \/ OnStandby(StandbyNext)

\* The fairness of each lane's own specification.
LanesSpec ==
  /\ LanesInit /\ [][LanesNext]_lanesVars
  /\ WF_shipVars(lane = "ship" /\ Shipper)
  /\ \A j \in Job : WF_shipVars(lane = "ship" /\ Remote(j))
  /\ \A i \in Row : WF_shipVars(lane = "ship" /\ StoredElsewhere(i))
  /\ WF_<<nodeVars, scanVars>>(lane = "readback" /\ Readback)
  /\ WF_largeExportVars(lane = "export" /\ Exporter)
  /\ WF_largeExportVars(lane = "export" /\ Publishers)
  /\ WF_largeImportVars(lane = "import" /\ Importer)
  /\ WF_largeImportVars(lane = "import" /\ Archive)
  /\ WF_routerVars(lane = "standby" /\ CheckStep)
-----------------------------------------------------------------------------
(* The shipper's repository keeps the contract of imports (ImportSpec of    *)
(* LakeImport), on which the other lanes rely: a receipt only for a pinned  *)
(* root, and what a pinned root links stays.                                *)
ShipImports == ImportInit /\ [][lane = "ship" => ImportNext]_importVars

(* What each lane comes to in the end: ShippingEnds, ReadbackEnds,          *)
(* MirroringEnds, LargeImportEnds and TakeOverHappens.                      *)
ShipLaneEnds == lane = "ship" => ShippingEnds
ReadbackLaneEnds == lane = "readback" => ReadbackEnds
ExportLaneEnds == lane = "export" => MirroringEnds
ImportLaneEnds == lane = "import" => LargeImportEnds
StandbyLaneTakesOver == lane = "standby" => TakeOverHappens
=============================================================================
