------------------------------ MODULE MCFacility ------------------------------
(* A small instance of the facility: one resource and two owners; one device   *)
(* that is found twice at once or missed; two whose power is read, one of them *)
(* perhaps unregistered; one that gets hot; three benchmark runs.              *)
EXTENDS Facility, TLC

CONSTANTS alice, bob, gpu

\* The owners are only interchangeable for the resources.
Symmetry == Permutations(Owners)

MCCategory == [d \in HardwareUnits |-> "gpu"]
MCReadings == {[celsius |-> 95, memory |-> 8192, cuda |-> TRUE, smart |-> "ok"]}

\* Two devices, of which one may be unregistered when a batch tells of it.
MCSample(d, w) == [device |-> d, watts |-> w]
MCDomain == [g |-> "gpu", c |-> "cpu"]
MCIdle == [d \in PowerUnits |-> 10]
MCRated == [d \in PowerUnits |-> 100]
MCSamples == {MCSample("g", 98), MCSample("c", Absent)}
MCPowerBatches ==
  {<<>>, <<MCSample("g", 10), MCSample("g", 98)>>, <<MCSample("g", 98), MCSample("c", 50)>>,
   <<MCSample("c", Absent), MCSample("g", 10)>>, <<MCSample("c", Invalid), MCSample("c", 98)>>}
MCWorkload == {[hashes |-> 100, revenue |-> 50]}

\* One device, from cool to critical and without a sensor, a batch with an impossible temperature
\* in it, and a budget whose thresholds are out of order.
MCCelsius(c, fan, available) == [device |-> "g", celsius |-> c, fan |-> fan, available |-> available]
MCBatch(samples, unavailable) == [samples |-> samples, unavailable |-> unavailable]
MCLimits(t, w, c) == [target |-> t, warning |-> w, critical |-> c]
MCIdles == [d \in ThermalUnits |-> 40]
MCBudgetsOf == {MCLimits(60, 80, 95), MCLimits(60, 50, 95)}
MCDefault == MCLimits(70, 83, 95)
MCThermalBatches ==
  {MCBatch(<<MCCelsius(81, 400, TRUE)>>, {}),
   MCBatch(<<MCCelsius(97, 1500, TRUE)>>, {}), MCBatch(<<MCCelsius(0, Absent, FALSE)>>, {"g"}),
   MCBatch(<<>>, {"g"}),
   MCBatch(<<MCCelsius(75, Absent, TRUE), MCCelsius(200, Absent, TRUE)>>, {"g"})}

\* Three runs of one type, one of which reports another metric, over two instants.
MCDefinitions == {[active |-> TRUE, higher |-> TRUE, supports |-> {"*"}]}
MCResults == <<{[metric |-> "hashrate", value |-> 100]}, {[metric |-> "hashrate", value |-> 95]},
               {[metric |-> "latency", value |-> 0]}>>
=============================================================================
