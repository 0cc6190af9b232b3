------------------------------ MODULE MCParts ------------------------------
(***************************************************************************)
(* The programs and parts of programs that work by themselves, each at its *)
(* own instance: a behaviour is one of a single part, and the others stay  *)
(* in a state in which there is nothing for them to do.                    *)
(***************************************************************************)
EXTENDS SimPort, BaudRate, FtdiPty, Converters

VARIABLE part

\* Two clients.  The first may send its lines at once; it may leave in the middle
\* of a line, and the second then fills the buffer.
MCClients == {1, 2}
MCScripts ==
  <<{<<"char", "cr", "char", "cr", "lf">>, <<"char">>, <<"cr", "char", "char">>},
    {<<"char", "cr", "char", "cr">>, <<"char", "char", "char", "char", "cr", "lf">>}>>
MCBursts == {<<2, 1>>, <<1, 1>>}

\* 500 stands for a rate that modifybaud() does not know.
MCRates     == {9600, 38400, 57600, 500}
MCPortRates == {9600, 38400, 57600}
MCGuesses   == <<9600, 38400>>
MCSpeeds    == <<38400, 57600, 500>>
MCRequests  == {-1, 0, 9600, 38400, 500}
MCTargets   == {-1, 0, 38400, 500}

MCTools == {"csv", "gpx", "kml"}
MCTimes == {1, 2, 3}
MCMinusOne == -1
T(s, e) == [start |-> s, end |-> e]
R(t, k) == [time |-> t, trip |-> k]
MCLogs ==
  {[trips |-> <<>>, obd |-> {}, gps |-> {}],
   \* a row at the very time at which one trip ends and the next one starts
   [trips |-> <<T(1, 2), T(2, 3)>>, obd |-> {R(1, 1), R(2, 1)}, gps |-> {R(1, 1), R(2, 1)}],
   \* positions before there was a trip
   [trips |-> <<T(1, 3)>>, obd |-> {R(1, 1), R(2, 1)}, gps |-> {R(1, 1), R(2, -1)}],
   [trips |-> <<T(1, 2)>>, obd |-> {R(1, 1)}, gps |-> {R(1, 1), R(2, 1)}],
   \* a row of no trip
   [trips |-> <<T(1, 2)>>, obd |-> {R(1, -1), R(2, 1)}, gps |-> {R(1, 0), R(2, 1)}],
   \* positions still filed under the trip that has ended
   [trips |-> <<T(1, 2), T(3, 3)>>, obd |-> {R(1, 1), R(2, 1)}, gps |-> {R(1, 1), R(2, -1), R(3, 1)}]}

-----------------------------------------------------------------------------
\* What a part that rests has its values from.
ASSUME RestAssumption ==
  /\ <<1, 1>> \in Bursts /\ "csv" \in Tools
  /\ 9600 \in PortRates /\ -1 \in Requests /\ -1 \in Targets

PortRests ==
  /\ fd = NoClient /\ towrite = 0 /\ killed = FALSE
  /\ readbuf = <<>> /\ behind = [i \in 1..BufSize |-> Nul] /\ infront = 0
  /\ backlog = <<>> /\ came = {} /\ left = {}
  /\ wire = [c \in Clients |-> <<>>] /\ todo = [c \in Clients |-> <<>>] /\ burst = <<1, 1>>
  /\ asked = [c \in Clients |-> 0] /\ answers = [c \in Clients |-> 0]
  /\ got = <<>> /\ taken = <<>> /\ strays = 0

BaudRests ==
  /\ at = "opened" /\ port = 9600 /\ elm = 9600 /\ oldrate = 9600 /\ trying = FALSE
  /\ reply = "none" /\ baudrate = -1 /\ target = -1 /\ current_baud = -1
  /\ attempt = 1 /\ current_best = -1
  /\ agreed = FALSE /\ raced = FALSE /\ blind = FALSE

BridgeRests == BridgeInit

ConvRests ==
  /\ trips = <<>> /\ obd = {} /\ gps = {}
  /\ tool = "csv" /\ conv = "done" /\ rest = {} /\ ahead = {}
  /\ lines = {} /\ track = <<>> /\ currtrip = -1
  /\ folder = 1 /\ graphs = {} /\ maxof = {}
  /\ refused = TRUE /\ published = 0

PartsInit ==
  \/ part = "port"   /\ PortInit  /\ BaudRests /\ BridgeRests /\ ConvRests
  \/ part = "baud"   /\ PortRests /\ BaudInit  /\ BridgeRests /\ ConvRests
  \/ part = "bridge" /\ PortRests /\ BaudRests /\ BridgeInit  /\ ConvRests
  \/ part = "conv"   /\ PortRests /\ BaudRests /\ BridgeRests /\ ConvInit

OfPort(A)   == part = "port"   /\ A /\ UNCHANGED <<part, baudVars, bridgeVars, allConvVars>>
OfBaud(A)   == part = "baud"   /\ A /\ UNCHANGED <<part, portVars, bridgeVars, allConvVars>>
OfBridge(A) == part = "bridge" /\ A /\ UNCHANGED <<part, portVars, baudVars, allConvVars>>
OfConv(A)   == part = "conv"   /\ A /\ UNCHANGED <<part, portVars, baudVars, bridgeVars>>

PartsNext == OfPort(PortNext) \/ OfBaud(BaudNext) \/ OfBridge(BridgeNext) \/ OfConv(ConvNext)

partsVars == <<part, portVars, baudVars, bridgeVars, allConvVars>>

\* Each part with the fairness of its own specification.
PartsSpec ==
  /\ PartsInit /\ [][PartsNext]_partsVars
  /\ WF_partsVars(OfPort(Port))
  /\ WF_partsVars(OfBaud(Opening)) /\ WF_partsVars(OfBaud(Adapter))
  /\ WF_partsVars(OfBridge(MyLoop)) /\ WF_partsVars(OfBridge(AdapterReplies))
  /\ WF_partsVars(OfBridge(Hear))

-----------------------------------------------------------------------------
\* Every part has its types, that of the one that works and those that rest: the
\* buffers of readLine() and of the pty never hold more than they can, and the
\* port of the logger has only rates that modifybaud() can set.
PartsTypeOK == PortTypeOK /\ BaudTypeOK /\ BridgeTypeOK /\ ConvTypeOK
=============================================================================
