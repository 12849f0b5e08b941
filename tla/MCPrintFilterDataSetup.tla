----------------------- MODULE MCPrintFilterDataSetup -----------------------
(***************************************************************************)
(* Configurations of up to three variables out of one ObsValue, one        *)
(* MetaData, one GeoVaLs and one ObsDiag variable; the ObsSpace holds the  *)
(* first two, the framework fills GeoVaLs, ObsDiag and HofX on request.    *)
(***************************************************************************)
EXTENDS PrintFilterDataSetup

Var(g, n) == [group |-> g, name |-> n]

MCCandidates ==
    { Var("ObsValue", "airTemperature"), Var("MetaData", "latitude"),
      Var("GeoVaLs", "air_temperature"), Var("ObsDiag", "transmittances") }

MCInFile == {Var("ObsValue", "airTemperature"), Var("MetaData", "latitude")}

MCSupplied == {"GeoVaLs", "ObsDiag", "HofX"}

=============================================================================
