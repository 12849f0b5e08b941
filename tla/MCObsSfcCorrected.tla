------------------------- MODULE MCObsSfcCorrected -------------------------
EXTENDS ObsSfcCorrected

\* Three assimilated variables.
MCAssimVars == <<"airTemperature", "stationPressure", "specificHumidity">>

\* `variables` absent (all of them, in order), or the last two.
MCOperatorVarChoices ==
    {MCAssimVars, <<"stationPressure", "specificHumidity">>}

MCRequiredVars ==
    [v \in {"airTemperature", "stationPressure", "specificHumidity",
            "windEastward"} |-> {"surface_altitude", v}]

\* Two correction schemes.
MCNamedValues == <<[name |-> "UKMO", value |-> 1], [name |-> "WRFDA", value |-> 2]>>
MCCorrectionTypes == {1, 2}

\* simobs writes every location of its buffer.
MCSimObsWrites == {Locs}

MCNLocs == 2

\* Four assimilated variables; getOperatorVariables may yield any sequence
\* of distinct ones (the `variables` option, in the order it lists them).
MCAssimVars4 ==
    <<"airTemperature", "stationPressure", "specificHumidity", "windEastward">>

MCOperatorVarChoices4 ==
    {vs \in UNION {[1 .. n -> ToSet(MCAssimVars4)] : n \in 1 .. 4} :
        \A i, j \in DOMAIN vs : i # j => vs[i] # vs[j]}
=============================================================================
