------------------------- MODULE MCPrintFilterData -------------------------
(***************************************************************************)
(* Model of PrintFilterData for TLC: two ranks, three kept locations with  *)
(* no upstream gaps, and three configured variables covering the three     *)
(* paths of getAllData (plain, per-channel, multi-level).                  *)
(***************************************************************************)
EXTENDS PrintFilterData

MCRanks == 2

\* The kept locations: 0..2, i.e. nothing rejected upstream, or none at all.
MCKeptRowSets == {{0, 1, 2}, {}}

MCVarParams ==
    << [name |-> "airTemperature", group |-> "ObsValue",
        channels |-> <<>>, levels |-> {}],
       [name |-> "brightnessTemperature", group |-> "ObsValue",
        channels |-> <<1, 2>>, levels |-> {}],
       [name |-> "air_pressure", group |-> "GeoVaLs",
        channels |-> <<>>, levels |-> {0, 2}] >>

\* What a rank's store can say about the three variables.  Channel 1 may be
\* absent (get_db throws), level 2 may be out of range, the first variable
\* may be missing, and an Integer_64 variable reaches the default of the
\* dtype switch.
MCStoreRecs ==
    [has   : {<<TRUE, TRUE, TRUE>>, <<FALSE, TRUE, TRUE>>},
     dtype : {<<"Float", "Integer", "Float">>, <<"Bool", "Integer", "Integer_64">>},
     chans : {<<{}, {1, 2}, {}>>, <<{}, {2}, {}>>},
     nlevs : {<<0, 0, 2>>, <<0, 0, 3>>}]

\* Every rank sees the same store.
MCUniformStores == {[w \in 0 .. MCRanks - 1 |-> s] : s \in MCStoreRecs}

\* Lengths of "ObsValue/airTemperature", "ObsValue/brightnessTemperature_c"
\* and "GeoVaLs/air_pressure (level l)".
MCNameLen(k) ==
    CASE k[1] = "airTemperature" -> 23
      [] k[1] = "brightnessTemperature" -> 32
      [] OTHER -> 30

MCNameLenFn ==
    [k \in {ChanKey("airTemperature", 0)}
           \cup {ChanKey("brightnessTemperature", c) : c \in {1, 2}}
           \cup {LevelKey("air_pressure", l) : l \in {0, 2}} |-> MCNameLen(k)]

\* 2 locations per page: (58 - 32) / (10 + 3) = 2.
MCMaxTextWidth == 58
MCColumnWidth == 10

MCLocMins == {0, 1, 3}
MCLocMaxs == {0, 1, 5}

\* The example of the comments at lines 258-263 and of the spec: locations
\* 0 and 5 rejected upstream, window [0, 6).
MCGapKeptRowSets == {{1, 2, 3, 4}}
MCGapLocMins == {0}
MCGapLocMaxs == {6}

\* Channel 1 of brightnessTemperature is found by get_db on rank 0 only.
MCSkewedStores ==
    LET s(chans) == [has |-> <<TRUE, TRUE, TRUE>>,
                     dtype |-> <<"Float", "Integer", "Float">>,
                     chans |-> <<{}, chans, {}>>,
                     nlevs |-> <<0, 0, 2>>]
    IN {[w \in 0 .. MCRanks - 1 |-> IF w = 0 THEN s({1, 2}) ELSE s({2})]}

\* `minimum location` 3 (clamped to 2) above `maximum location` 1.
MCBadLocMins == {3}
MCBadLocMaxs == {1}

\* Default window: locations 0 and 4 rejected upstream, `maximum location`
\* left at 0.  Every location passes the mask, so the line-296 read of
\* another location's mask bit cannot hide a row.
MCDefaultKeptRowSets == {{1, 2, 3}}
MCDefaultLocMins == {0}
MCDefaultLocMaxs == {0}
AllApplied == (\A r \in kept : mask[r]) /\ ~printRank0


\* Refinement: two locations, in either rank order, one location per page
\* (names up to 32 wide), and windows that print both, clamp the minimum
\* or keep one.
MCRefKeptRowSets == {{0, 1}}
MCRefLocMins == {0, 3}
MCRefLocMaxs == {0, 1}
MCRefMaxTextWidth == 45

\* Three uniform stores: everything present; the first variable absent,
\* channel 1 unreadable and level 2 out of range; an Integer_64 field.
MCRefStores ==
    LET s(has, dt, chans, nlevs) ==
          [w \in 0 .. MCRanks - 1 |->
              [has |-> has, dtype |-> dt, chans |-> chans, nlevs |-> nlevs]]
    IN {s(<<TRUE, TRUE, TRUE>>, <<"Float", "Integer", "Float">>, <<{}, {1, 2}, {}>>, <<0, 0, 3>>),
        s(<<FALSE, TRUE, TRUE>>, <<"Float", "Integer", "Float">>, <<{}, {2}, {}>>, <<0, 0, 2>>),
        s(<<TRUE, TRUE, TRUE>>, <<"Bool", "Integer", "Integer_64">>, <<{}, {1, 2}, {}>>, <<0, 0, 3>>)}


\* Three ranks: the 27 distributions of locations 0..2 (and an empty
\* ObsSpace), among them an empty middle rank and a rank whose location
\* lies between two locations of another rank.
MCRanks3 == 3
MCStores3 ==
    {[w \in 0 .. MCRanks3 - 1 |-> st[0]] : st \in MCRefStores}
MCLocMaxs3 == {0, 1}

=============================================================================
