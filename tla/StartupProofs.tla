------------------------------ MODULE StartupProofs ------------------------------
(***************************************************************************)
(* Proofs about Startup: what the constructor of RHI ends with on any      *)
(* machine, what imports leave in the buffers of a model for any mesh and  *)
(* in a texture for any image and any number of workers, and what follows  *)
(* from an event until the views are shown, for any number of frames,      *)
(* events and updates and any layouts that have one number of views.       *)
(***************************************************************************)
EXTENDS Startup, FiniteSetTheorems, SequenceTheorems, WellFoundedInduction, TLAPS

------------------------------------------------------------------------------
\* A set of natural numbers with zero and with every successor has them all:
\* without them it would leave out a least one.
LEMMA Induct ==
  ASSUME NEW T \in SUBSET Nat, 0 \in T, \A n \in T : n + 1 \in T
  PROVE  T = Nat
<1> SUFFICES ASSUME Nat \ T # {} PROVE FALSE
  OBVIOUS
<1>1. \E x \in Nat \ T : \A y \in Nat \ T : ~ (<< y, x >> \in OpToRel(<, Nat))
  BY NatLessThanWellFounded, WFMin, Zenon
<1>2. PICK x \in Nat \ T : \A y \in Nat \ T : ~ (<< y, x >> \in OpToRel(<, Nat))
  BY <1>1
<1>3. ASSUME NEW y \in Nat \ T, y < x PROVE FALSE
  <2>1. << y, x >> \in Nat \X Nat /\ << y, x >>[1] < << y, x >>[2]
    BY <1>3
  <2>2. << y, x >> \in OpToRel(<, Nat)
    BY <2>1, Zenon DEF OpToRel
  <2> QED
    BY <1>2, <2>2
<1>4. x - 1 \in Nat /\ x - 1 < x /\ (x - 1) + 1 = x
  <2>1. x \in Nat /\ x # 0
    BY <1>2
  <2> QED
    BY <2>1
<1>5. x - 1 \in T
  BY <1>3, <1>4
<1> QED
  BY <1>2, <1>4, <1>5

------------------------------------------------------------------------------
(***************************************************************************)
(* The device.  What a step of the constructor has found stays as it is,   *)
(* and what the next one asks of it was checked or is promised by every    *)
(* device.  Only the first device comes through the constructor, so the    *)
(* first is what device.bin names, and every machine has it.               *)
(***************************************************************************)

\* Numbers up to a bound have a last one.
LEMMA LastExists ==
  ASSUME NEW n \in Nat, NEW F \in SUBSET (1 .. n), F # {}
  PROVE  \E f \in F : \A g \in F : g <= f
<1> DEFINE T == {m \in Nat : \A G \in SUBSET (1 .. m) :
                               G # {} => \E f \in G : \A g \in G : g <= f}
<1>1. 0 \in T
  <2>1. ASSUME NEW G \in SUBSET (1 .. 0), NEW g \in G PROVE FALSE
    <3>1. g \in 1 .. 0
      BY <2>1
    <3> QED
      BY <3>1
  <2> QED
    BY <2>1
<1>2. ASSUME NEW m \in T PROVE m + 1 \in T
  <2>1. SUFFICES ASSUME NEW G \in SUBSET (1 .. m + 1), G # {}
                 PROVE  \E f \in G : \A g \in G : g <= f
    OBVIOUS
  <2>2. m \in Nat /\ \A g \in G : g \in Nat /\ g <= m + 1
    OBVIOUS
  <2>3. CASE m + 1 \in G
    BY <2>2, <2>3
  <2>4. CASE m + 1 \notin G
    <3>1. G \in SUBSET (1 .. m)
      BY <2>2, <2>4
    <3> QED
      BY <2>1, <3>1
  <2> QED
    BY <2>3, <2>4
<1> HIDE DEF T
<1>3. T = Nat
  <2>1. T \in SUBSET Nat
    BY DEF T
  <2> QED
    BY <1>1, <1>2, <2>1, Induct
<1> QED
  BY <1>3 DEF T

Device(d) ==
  /\ machine[d].type \in DOMAIN Priority
  /\ machine[d].families \in Seq(QueueFamilies)
  /\ machine[d].minImages \in Nat /\ machine[d].maxImages \in Nat
  /\ "fifo" \in machine[d].modes
  /\ machine[d].maxImages = 0 \/ machine[d].minImages <= machine[d].maxImages

LEMMA Devices ==
  ASSUME machine \in Machines
  PROVE  /\ Len(machine) \in Nat /\ DOMAIN machine = 1 .. Len(machine)
         /\ \A d \in DOMAIN machine : Device(d)
<1>1. /\ machine \in Seq(PhysicalDevices)
      /\ \A d \in DOMAIN machine : /\ "fifo" \in machine[d].modes
                                   /\ machine[d].maxImages = 0
                                        \/ machine[d].minImages <= machine[d].maxImages
  BY MachinesAssumption
<1>2. Len(machine) \in Nat /\ DOMAIN machine = 1 .. Len(machine)
  BY <1>1
<1>3. ASSUME NEW d \in DOMAIN machine PROVE Device(d)
  <2>1. machine[d] \in PhysicalDevices
    BY <1>1, <1>2
  <2>2. /\ machine[d].type \in {"discrete", "integrated", "virtual", "cpu", "other"}
        /\ machine[d].families \in Seq(QueueFamilies)
        /\ machine[d].minImages \in Nat /\ machine[d].maxImages \in Nat
    BY <2>1 DEF PhysicalDevices
  <2> QED
    BY <1>1, <2>2 DEF Device, Priority
<1> QED
  BY <1>2, <1>3

\* The extensions of the first device, which SupportsExtension remembers.
Known ==
  /\ extensions = [i \in DOMAIN machine |-> IF i = 1 THEN machine[1].extensions ELSE {}]
  /\ features = [d \in DOMAIN machine |->
                   (Unconditional \cup {e \in Optional \ {"push_descriptor"} : e \in extensions[d]})
                     \cap machine[d].extensions]

Enabled ==
  /\ "required" \in extensions[used]
  /\ enabled = {"required"} \cup {e \in Optional : e \in extensions[used]}

\* The index in device.bin, and the one that Device takes.
SavedFits ==
  /\ saved \in {NotChosen, 1}
  /\ saved = NotChosen => ~ moved
  /\ saved # NotChosen /\ ~ moved => saved \in BestOf(Candidates)

UsedFits ==
  /\ used \in DOMAIN machine
  /\ saved = NotChosen => used = chosen
  /\ saved # NotChosen => used = saved

ConfigFits ==
  LET d == machine[used] IN
  /\ config.mode \in d.modes
  /\ d.formats \cap ToSet(RequestSurfaceImageFormat) # {} => config.format \in d.formats
  /\ d.minImages <= 3 => /\ config.images >= d.minImages
                         /\ d.maxImages = 0 \/ config.images <= d.maxImages
  /\ config.extent # Open

QueuesFit ==
  /\ \A q \in QueueTypes :
       (q = "compute" => GraphicsCompute(machine[used])) => CanDo(FamilyOf(q), q)
  /\ \A p, q \in QueueTypes :
       context[p] # context[q] => made[context[p]].family # made[context[q]].family

NoQueues == made = [q \in QueueTypes |-> NoContext]

Steps == {"instance", "detect", "device", "swapchain", "queues", "ready"}

DeviceInv ==
  /\ machine \in Machines
  /\ SavedFits
  /\ step \in Steps \cup {"trapped"}
  /\ step = "instance" => extensions = << >>
  /\ step \notin {"instance", "trapped"} => Known /\ machine # << >>
  /\ step \notin {"instance", "detect", "trapped"} => chosen \in BestOf(Candidates)
  /\ step \in {"swapchain", "queues", "ready"} => UsedFits /\ Enabled
  /\ step \in {"queues", "ready"} => ConfigFits
  /\ step \in Steps \ {"ready"} => NoQueues
  /\ step = "ready" => QueuesFit
  /\ step = "trapped" => Candidates = {} \/ Unlucky

LEMMA BestIsDevice ==
  ASSUME machine \in Machines, NEW d \in BestOf(Candidates)
  PROVE  /\ d \in Candidates /\ d \in DOMAIN machine /\ d \in Nat /\ d # NotChosen
         /\ Device(d)
         /\ \E f \in DOMAIN machine[d].families :
              "graphics" \in machine[d].families[f].flags
BY Devices DEF BestOf, Candidates, NotChosen

\* An index that was detected on this machine is that of a best candidate.
LEMMA UsedIsBest ==
  ASSUME SavedFits, UsedFits, chosen \in BestOf(Candidates), ~ moved
  PROVE  used \in BestOf(Candidates)
BY DEF SavedFits, UsedFits

\* What stays when neither the machine nor device.bin changes.
LEMMA SameMachine ==
  ASSUME UNCHANGED kept
  PROVE  /\ UNCHANGED << machine, saved, moved >>
         /\ Candidates' = Candidates
         /\ BestOf(Candidates)' = BestOf(Candidates)
         /\ SavedFits => SavedFits'
<1>1. UNCHANGED << machine, saved, moved >>
  BY DEF kept
<1>2. Candidates' = Candidates
  BY <1>1 DEF Candidates
<1>3. BestOf(Candidates)' = BestOf(Candidates)
  BY <1>1, <1>2 DEF BestOf
<1> QED
  BY <1>1, <1>2, <1>3 DEF SavedFits

LEMMA DeviceFits == DeviceInv => SetupFits
<1> SUFFICES ASSUME DeviceInv PROVE SetupFits
  OBVIOUS
<1>1. step = "trapped" => Candidates = {} \/ Unlucky
  BY DEF DeviceInv
<1>2. ASSUME step = "ready"
      PROVE  LET d == machine[used] IN
             /\ used \in DOMAIN machine
             /\ ~ moved => /\ used \in Candidates
                           /\ \A e \in Candidates : Priority[d.type] <= Priority[machine[e].type]
             /\ enabled \subseteq d.extensions
             /\ features[used] \subseteq enabled \cup {"swapchain_maintenance1"}
  <2>1. Known /\ Enabled /\ UsedFits /\ SavedFits /\ chosen \in BestOf(Candidates)
    BY <1>2 DEF DeviceInv
  <2>2. used \in DOMAIN machine
    BY <2>1 DEF UsedFits
  <2>3. used = 1 /\ extensions[used] = machine[used].extensions
    BY <2>1, <2>2 DEF Known, Enabled
  <2>4. enabled \subseteq machine[used].extensions
    BY <2>1, <2>3 DEF Enabled
  <2>5. features[used] =
          (Unconditional \cup {e \in Optional \ {"push_descriptor"} : e \in extensions[used]})
            \cap machine[used].extensions
    BY <2>1, <2>2 DEF Known
  <2>6. features[used] \subseteq enabled \cup {"swapchain_maintenance1"}
    BY <2>1, <2>5 DEF Enabled, Unconditional
  <2>7. ~ moved => used \in BestOf(Candidates)
    BY <2>1, UsedIsBest
  <2> QED
    BY <2>2, <2>4, <2>6, <2>7 DEF BestOf
<1>3. step = "ready" => ConfigFits /\ QueuesFit
  BY DEF DeviceInv
<1> QED
  BY <1>1, <1>2, <1>3 DEF SetupFits, ConfigFits, QueuesFit

LEMMA InitDevice == SetupInit => DeviceInv
BY DEF SetupInit, DeviceInv, SavedFits, NoQueues, Steps

LEMMA EnumerateKeeps ==
  ASSUME DeviceInv, EnumeratePhysicalDevices
  PROVE  DeviceInv'
<1>1. /\ step = "instance" /\ extensions = << >> /\ machine \in Machines /\ NoQueues
      /\ UNCHANGED << kept, chosen, used, enabled, config, made, context >>
  BY DEF EnumeratePhysicalDevices, DeviceInv, Steps
<1>2. NoQueues' /\ SavedFits' /\ UNCHANGED machine
  BY <1>1, SameMachine DEF NoQueues, DeviceInv
<1>3. CASE machine = << >>
  <2>1. step' = "trapped"
    BY <1>3 DEF EnumeratePhysicalDevices, Trap
  <2>2. Candidates' = {}
    BY <1>2, <1>3 DEF Candidates
  <2> QED
    BY <1>1, <1>2, <2>1, <2>2 DEF DeviceInv, Steps
<1>4. CASE machine # << >>
  <2>1. /\ step' = "detect" /\ extensions' = Remembered(extensions, 1)
        /\ features' = [d \in DOMAIN machine |-> Features(d)]
    BY <1>4 DEF EnumeratePhysicalDevices
  <2>2. Known'
    BY <1>1, <1>2, <2>1 DEF Known, Remembered, Features, Chained, SupportsExtension
  <2> QED
    BY <1>1, <1>2, <1>4, <2>1, <2>2 DEF DeviceInv, Steps
<1> QED
  BY <1>3, <1>4

LEMMA DetectKeeps ==
  ASSUME DeviceInv, DetectSuitableGraphicsDevice
  PROVE  DeviceInv'
<1>1. /\ step = "detect" /\ machine \in Machines /\ Known /\ machine # << >> /\ NoQueues
      /\ UNCHANGED << kept, extensions, features, used, enabled, config, made, context >>
  BY DEF DetectSuitableGraphicsDevice, DeviceInv, Steps
<1>2. SavedFits' /\ UNCHANGED machine /\ Candidates' = Candidates
  BY <1>1, SameMachine DEF DeviceInv
<1>3. Known' /\ NoQueues'
  BY <1>1, <1>2 DEF Known, NoQueues
<1>4. CASE Candidates = {} /\ Trap
  BY <1>1, <1>2, <1>3, <1>4 DEF DeviceInv, Steps, Trap
<1>5. CASE chosen' \in BestOf(Candidates) /\ step' = "device"
  <2>1. chosen' \in BestOf(Candidates)'
    BY <1>2, <1>5 DEF BestOf
  <2> QED
    BY <1>1, <1>2, <1>3, <1>5, <2>1 DEF DeviceInv, Steps
<1> QED
  BY <1>4, <1>5 DEF DetectSuitableGraphicsDevice

LEMMA CreateDeviceKeeps ==
  ASSUME DeviceInv, CreateDevice
  PROVE  DeviceInv'
<1>1. /\ step = "device" /\ machine \in Machines /\ Known /\ machine # << >> /\ NoQueues
      /\ chosen \in BestOf(Candidates) /\ SavedFits
      /\ UNCHANGED << extensions, kept, features, chosen, config, made, context >>
      /\ used' = IndexOf(chosen)
  BY DEF CreateDevice, DeviceInv, Steps
<1>2. /\ SavedFits' /\ UNCHANGED << machine, saved, moved >>
      /\ Candidates' = Candidates /\ BestOf(Candidates)' = BestOf(Candidates)
  BY <1>1, SameMachine
<1>3. Known' /\ NoQueues'
  BY <1>1, <1>2 DEF Known, NoQueues
<1>4. UsedFits'
  <2>1. chosen \in DOMAIN machine
    BY <1>1, BestIsDevice
  <2>2. 1 \in DOMAIN machine
    BY <1>1, <2>1, Devices
  <2> QED
    BY <1>1, <1>2, <2>1, <2>2 DEF UsedFits, IndexOf, SavedFits
<1>5. used' \in DOMAIN machine
  BY <1>2, <1>4 DEF UsedFits
<1>6. CASE "required" \in extensions[used']
  <2>1. /\ step' = "swapchain"
        /\ enabled' = {"required"} \cup {e \in Optional : e \in extensions[used']}
    BY <1>1, <1>5, <1>6 DEF CreateDevice, SupportsExtension
  <2>2. Enabled'
    BY <1>1, <1>6, <2>1 DEF Enabled
  <2> QED
    BY <1>1, <1>2, <1>3, <1>4, <2>1, <2>2 DEF DeviceInv, Steps
<1>7. CASE "required" \notin extensions[used']
  <2>1. step' = "trapped"
    BY <1>1, <1>7 DEF CreateDevice, SupportsExtension, Trap
  <2>2. used' # 1 \/ "required" \notin machine[used'].extensions
    BY <1>1, <1>5, <1>7 DEF Known
  <2>3. Unlucky'
    BY <1>2, <1>5, <2>2 DEF Unlucky
  <2> QED
    BY <1>1, <1>2, <2>1, <2>3 DEF DeviceInv, Steps
<1> QED
  BY <1>6, <1>7

LEMMA SwapchainKeeps ==
  ASSUME DeviceInv, DetectSuitableSwapchain
  PROVE  DeviceInv'
<1>1. /\ step = "swapchain" /\ machine \in Machines /\ Known /\ machine # << >> /\ NoQueues
      /\ chosen \in BestOf(Candidates) /\ UsedFits /\ Enabled
      /\ UNCHANGED << kept, extensions, features, chosen, used, enabled, made, context >>
  BY DEF DetectSuitableSwapchain, DeviceInv, Steps
<1>2. /\ SavedFits' /\ UNCHANGED << machine, saved, moved >>
      /\ Candidates' = Candidates /\ BestOf(Candidates)' = BestOf(Candidates)
  BY <1>1, SameMachine DEF DeviceInv
<1>3. Known' /\ NoQueues' /\ UsedFits' /\ Enabled'
  BY <1>1, <1>2 DEF Known, NoQueues, UsedFits, Enabled
<1>4. used \in DOMAIN machine /\ Device(used)
  BY <1>1, Devices DEF UsedFits
<1>5. CASE MailboxTraps(used)
  <2>1. step' = "trapped"
    BY <1>5 DEF DetectSuitableSwapchain, Trap
  <2>2. Unlucky'
    BY <1>1, <1>2, <1>4, <1>5 DEF Unlucky, MailboxTraps, PresentModeOf, SwapchainInfo
  <2> QED
    BY <1>1, <1>2, <2>1, <2>2 DEF DeviceInv, Steps
<1>6. CASE ~MailboxTraps(used)
  <2> DEFINE d == machine[used]
             mode == PresentModeOf(used)
  <2>1. /\ step' = "queues"
        /\ \E format \in SurfaceFormats(used) :
             config' = [extent |-> IF SwapchainInfo(used).extent = Open THEN WindowExtent
                                   ELSE SwapchainInfo(used).extent,
                        format |-> format,
                        mode   |-> PresentModeOf(used),
                        images |-> ImageCount(used, PresentModeOf(used))]
    BY <1>6 DEF DetectSuitableSwapchain
  <2>2. PICK format \in SurfaceFormats(used) :
             config' = [extent |-> IF d.extent = Open THEN WindowExtent ELSE d.extent,
                        format |-> format,
                        mode   |-> mode,
                        images |-> ImageCount(used, mode)]
    BY <2>1 DEF SwapchainInfo
  <2>3. mode \in d.modes
    BY <1>4 DEF PresentModeOf, Offered, SwapchainInfo, Device
  <2>4. d.formats \cap ToSet(RequestSurfaceImageFormat) # {} => format \in d.formats
    <3> DEFINE requests == RequestSurfaceImageFormat
    <3>1. SwapchainInfo(used).formats = d.formats
      BY DEF SwapchainInfo
    <3>2. \A f \in Offered(requests, d.formats) : f \in d.formats
      BY DEF Offered
    <3>3. ASSUME d.formats \cap ToSet(requests) # {} PROVE Offered(requests, d.formats) # {}
      <4>1. /\ DOMAIN requests = 1 .. 4
            /\ \E i \in 1 .. 4 : requests[i] \in d.formats
        BY <3>3 DEF ToSet, RequestSurfaceImageFormat
      <4> HIDE DEF requests
      <4>2. \E i \in 1 .. 4 : /\ requests[i] \in d.formats
                              /\ \A k \in 1 .. i - 1 : requests[k] \notin d.formats
        <5>1. CASE requests[1] \in d.formats
          BY <5>1
        <5>2. CASE requests[1] \notin d.formats /\ requests[2] \in d.formats
          BY <5>2
        <5>3. CASE /\ requests[1] \notin d.formats /\ requests[2] \notin d.formats
                   /\ requests[3] \in d.formats
          BY <5>3
        <5>4. CASE /\ requests[1] \notin d.formats /\ requests[2] \notin d.formats
                   /\ requests[3] \notin d.formats /\ requests[4] \in d.formats
          BY <5>4
        <5> QED
          BY <4>1, <5>1, <5>2, <5>3, <5>4
      <4> QED
        BY <4>1, <4>2 DEF Offered
    <3> QED
      BY <3>1, <3>2, <3>3 DEF SurfaceFormats
  <2>5. /\ mode = "mailbox" => d.maxImages >= 3 /\ ImageCount(used, mode) = 3
        /\ mode # "mailbox" => ImageCount(used, mode) = d.minImages
    BY <1>4, <1>6 DEF MailboxTraps, ImageCount, SwapchainInfo, Device
  <2> HIDE DEF mode
  <2>6. ConfigFits'
    BY <1>1, <1>2, <1>4, <2>2, <2>3, <2>4, <2>5 DEF ConfigFits, Device, Open, WindowExtent
  <2> QED
    BY <1>1, <1>2, <1>3, <2>1, <2>6 DEF DeviceInv, Steps
<1> QED
  BY <1>5, <1>6

LEMMA QueuesKeep ==
  ASSUME DeviceInv, CreateQueues
  PROVE  DeviceInv'
<1>1. /\ step = "queues" /\ machine \in Machines /\ Known /\ machine # << >> /\ NoQueues
      /\ chosen \in BestOf(Candidates) /\ UsedFits /\ Enabled /\ ConfigFits
      /\ UNCHANGED << kept, extensions, features, chosen, used, enabled, config >>
      /\ made' = [q \in QueueTypes |-> Filled(q)]
  BY DEF CreateQueues, DeviceInv, Steps
<1>2. /\ SavedFits' /\ UNCHANGED << machine, saved, moved >>
      /\ Candidates' = Candidates /\ BestOf(Candidates)' = BestOf(Candidates)
  BY <1>1, SameMachine DEF DeviceInv
<1>3. Known' /\ UsedFits' /\ Enabled' /\ ConfigFits'
  BY <1>1, <1>2 DEF Known, UsedFits, Enabled, ConfigFits
<1> DEFINE families == machine[used].families
           Serving(q) == {f \in DOMAIN families : TypeOf(families[f]) = q}
<1>4. families \in Seq(QueueFamilies)
  BY <1>1, Devices DEF Device, UsedFits
<1>5. /\ Len(families) \in Nat /\ DOMAIN families = 1 .. Len(families)
      /\ \A f \in DOMAIN families : families[f].queues \in Nat \ {0}
  <2> HIDE DEF families
  <2>1. Len(families) \in Nat /\ DOMAIN families = 1 .. Len(families)
    BY <1>4
  <2>2. \A f \in DOMAIN families : families[f] \in QueueFamilies
    BY <1>4
  <2> QED
    BY <2>1, <2>2 DEF QueueFamilies
<1> DEFINE LastOne(q) == CHOOSE f \in Serving(q) : \A g \in Serving(q) : g <= f
<1>6. ASSUME NEW q, Serving(q) # {}
      PROVE  /\ LastOne(q) \in DOMAIN families /\ TypeOf(families[LastOne(q)]) = q
             /\ Filled(q).family = LastOne(q) /\ Filled(q).queues # 0
  <2>1. \E f \in Serving(q) : \A g \in Serving(q) : g <= f
    <3> DEFINE F == Serving(q)
    <3>1. F \in SUBSET (1 .. Len(families)) /\ F # {}
      BY <1>5, <1>6
    <3> HIDE DEF F
    <3>2. \E f \in F : \A g \in F : g <= f
      BY <1>5, <3>1, LastExists
    <3> QED
      BY <3>2 DEF F
  <2>2. LastOne(q) \in Serving(q)
    BY <2>1
  <2>3. Filled(q) = [family |-> LastOne(q), queues |-> families[LastOne(q)].queues,
                     levels |-> IF q = "graphics" THEN 15 ELSE 1]
    BY <1>6, Zenon DEF Filled
  <2> HIDE DEF LastOne
  <2>4. LastOne(q) \in DOMAIN families /\ TypeOf(families[LastOne(q)]) = q
    BY <2>2
  <2> QED
    BY <1>5, <2>3, <2>4
<1>7. ASSUME NEW q \in QueueTypes, Serving(q) = {} PROVE Filled(q).queues = 0
  BY <1>1, <1>7 DEF Filled, NoQueues, NoContext
\* Without a graphics family the device is no candidate, and so the index is
\* that of another machine's.
<1>8. CASE Serving("graphics") = {}
  <2>1. made'["graphics"].queues = 0
    BY <1>1, <1>7, <1>8 DEF QueueTypes
  <2>2. step' = "trapped"
    BY <2>1 DEF CreateQueues, Trap
  <2>3. \A f \in DOMAIN families : "graphics" \notin families[f].flags
    BY <1>5, <1>8 DEF TypeOf
  <2>4. used \notin Candidates
    BY <2>3 DEF Candidates
  <2>5. moved
    BY <1>1, <2>4, UsedIsBest, BestIsDevice DEF DeviceInv
  <2>6. Unlucky'
    BY <1>1, <1>2, <2>4, <2>5 DEF Unlucky, UsedFits
  <2> QED
    BY <1>1, <1>2, <2>2, <2>6 DEF DeviceInv, Steps
<1> SUFFICES ASSUME Serving("graphics") # {} PROVE DeviceInv'
  BY <1>8
<1> DEFINE Made(q) == made'[q].family
<1>9. ASSUME NEW q \in QueueTypes, made'[q].queues # 0
      PROVE  /\ Made(q) \in DOMAIN families /\ TypeOf(families[Made(q)]) = q
  <2>1. made'[q] = Filled(q)
    BY <1>1
  <2>2. Serving(q) # {}
    BY <1>7, <1>9, <2>1
  <2> HIDE DEF Serving, LastOne, families
  <2> QED
    BY <1>6, <2>1, <2>2
<1>10. made'["graphics"].queues # 0
  <2>1. made'["graphics"] = Filled("graphics")
    BY <1>1 DEF QueueTypes
  <2>2. Serving("graphics") # {}
    OBVIOUS
  <2> HIDE DEF Serving, LastOne, families
  <2> QED
    BY <1>6, <2>1, <2>2
<1>11. step' = "ready" /\ context' = Aliased(made')
  BY <1>10 DEF CreateQueues
<1> HIDE DEF Serving, LastOne
<1>12. ASSUME NEW q \in QueueTypes
       PROVE  /\ context'[q] \in QueueTypes /\ made'[context'[q]].queues # 0
              /\ context'[q] = "graphics" \/ context'[q] = q
                   \/ (q = "transfer" /\ context'[q] = "compute")
  BY <1>10, <1>11 DEF Aliased, QueueTypes
<1>13. ASSUME NEW q \in QueueTypes, q = "compute" => GraphicsCompute(machine[used])
       PROVE  CanDo(families[Made(context'[q])], q)
  <2> DEFINE f == Made(context'[q])
  <2>1. f \in DOMAIN families /\ TypeOf(families[f]) = context'[q]
    BY <1>9, <1>12
  <2> SUFFICES CanDo(families[f], q)
    OBVIOUS
  <2> HIDE DEF f, families
  <2>2. context'[q] \in families[f].flags
    BY <1>12, <2>1 DEF TypeOf, QueueTypes
  <2>3. CASE q = "compute" /\ context'[q] = "graphics"
    BY <1>13, <2>1, <2>2, <2>3 DEF GraphicsCompute, CanDo, families
  <2>4. CASE q = "transfer"
    BY <2>2, <2>4 DEF CanDo
  <2>5. CASE context'[q] = q /\ q # "transfer"
    BY <2>2, <2>5 DEF CanDo
  <2>6. CASE q = "graphics"
    BY <1>12, <2>2, <2>6 DEF CanDo
  <2> QED
    BY <1>12, <2>3, <2>4, <2>5, <2>6 DEF QueueTypes
<1>14. ASSUME NEW p \in QueueTypes, NEW q \in QueueTypes, context'[p] # context'[q]
       PROVE  Made(context'[p]) # Made(context'[q])
  <2>1. /\ TypeOf(families[Made(context'[p])]) = context'[p]
        /\ TypeOf(families[Made(context'[q])]) = context'[q]
    BY <1>9, <1>12
  <2> QED
    BY <1>14, <2>1
<1>15. QueuesFit'
  BY <1>1, <1>2, <1>13, <1>14 DEF QueuesFit, FamilyOf, GraphicsCompute, CanDo
<1> QED
  BY <1>1, <1>2, <1>3, <1>11, <1>15 DEF DeviceInv, Steps

\* Only the first device comes to the end, and it was the best on the machine
\* it was detected on.
LEMMA StartAgainKeeps ==
  ASSUME DeviceInv, NEW index \in {NotChosen, 1}, StartAgain(index),
         index # NotChosen /\ ~ moved => index \in BestOf(Candidates)
  PROVE  DeviceInv'
<1>1. /\ step' = "instance" /\ extensions' = << >> /\ machine' \in Machines /\ NoQueues'
      /\ saved' = index /\ moved' = (index # NotChosen /\ (moved \/ machine' # machine))
  BY DEF StartAgain, NoQueues
<1>2. machine' = machine => BestOf(Candidates)' = BestOf(Candidates)
  BY DEF BestOf, Candidates
<1>3. SavedFits'
  BY <1>1, <1>2 DEF SavedFits
<1> QED
  BY <1>1, <1>3 DEF DeviceInv, Steps

LEMMA ExitKeeps ==
  ASSUME DeviceInv, Exit
  PROVE  DeviceInv'
<1>1. /\ chosen \in BestOf(Candidates) /\ SavedFits /\ UsedFits /\ Enabled /\ Known
      /\ StartAgain(used)
  BY DEF Exit, DeviceInv
<1>2. used = 1
  BY <1>1 DEF UsedFits, Enabled, Known
<1>3. ~ moved => used \in BestOf(Candidates)
  BY <1>1, UsedIsBest
<1> QED
  BY <1>1, <1>2, <1>3, StartAgainKeeps

LEMMA CrashKeeps ==
  ASSUME DeviceInv, Crash
  PROVE  DeviceInv'
BY StartAgainKeeps DEF Crash, DeviceInv, SavedFits

LEMMA LoseConfigKeeps ==
  ASSUME DeviceInv, LoseConfig
  PROVE  DeviceInv'
BY DEF LoseConfig, volatile, DeviceInv, SavedFits, NoQueues, Steps

LEMMA NextDevice ==
  ASSUME DeviceInv, SetUp \/ Exit \/ Crash \/ LoseConfig \/ UNCHANGED setupVars
  PROVE  DeviceInv'
<1>1. CASE SetUp
  BY <1>1, EnumerateKeeps, DetectKeeps, CreateDeviceKeeps, SwapchainKeeps, QueuesKeep DEF SetUp
<1>2. CASE Exit \/ Crash \/ LoseConfig
  BY <1>2, ExitKeeps, CrashKeeps, LoseConfigKeeps
<1>3. CASE UNCHANGED setupVars
  <2>1. UNCHANGED << step, volatile, kept, machine, saved, moved >>
    BY <1>3 DEF setupVars, kept
  <2> QED
    BY <2>1 DEF volatile, DeviceInv, SavedFits, UsedFits, Known, Enabled, ConfigFits, QueuesFit,
                NoQueues, Unlucky, Candidates, BestOf, FamilyOf, MailboxTraps, PresentModeOf,
                SwapchainInfo
<1> QED
  BY <1>1, <1>2, <1>3

------------------------------------------------------------------------------
(***************************************************************************)
(* The mesh of a model.  While it is imported, each corner that is done    *)
(* has an index, and uniqueVertices finds the one vertex there is of a     *)
(* kind; what is staged, kept in the file and read back is such a pair of  *)
(* indices and vertices for all corners.                                   *)
(***************************************************************************)

Joined(a, b) == a \o b

JoinsThrough(q, n, g) == g = [k \in 1 .. n |-> IF k = 1 THEN q[k] ELSE Joined(g[k - 1], q[k])]

\* What FlattenSeq computes exists for any number of sequences.
LEMMA JoinsExist == ASSUME NEW q PROVE \A n \in Nat : \E g : JoinsThrough(q, n + 1, g)
<1> DEFINE T == {n \in Nat : \E g : JoinsThrough(q, n + 1, g)}
<1>1. 0 \in T
  <2>1. JoinsThrough(q, 0 + 1, [k \in 1 .. 1 |-> q[k]])
    BY DEF JoinsThrough
  <2> QED
    BY <2>1
<1>2. ASSUME NEW n \in T PROVE n + 1 \in T
  <2>1. PICK g : JoinsThrough(q, n + 1, g)
    OBVIOUS
  <2> DEFINE m == (n + 1) + 1
             h == [k \in 1 .. m |-> IF k = m THEN Joined(g[n + 1], q[m]) ELSE g[k]]
  <2>2. \A k \in 1 .. n + 1 : h[k] = g[k] /\ g[k] = IF k = 1 THEN q[k] ELSE Joined(g[k - 1], q[k])
    BY <2>1 DEF JoinsThrough
  <2>3. \A k \in 1 .. m : h[k] = IF k = 1 THEN q[k] ELSE Joined(h[k - 1], q[k])
    <3>1. n \in Nat /\ m # 1 /\ m - 1 = n + 1 /\ n + 1 \in 1 .. n + 1 /\ m \in 1 .. m
      OBVIOUS
    <3>2. h[m] = Joined(g[n + 1], q[m]) /\ h[n + 1] = g[n + 1]
      BY <2>2, <3>1
    <3> HIDE DEF m, h
    <3>3. \A k \in 1 .. m : k = m \/ (k \in 1 .. n + 1 /\ (k # 1 => k - 1 \in 1 .. n + 1))
      BY <3>1 DEF m
    <3> QED
      BY <2>2, <3>1, <3>2, <3>3
  <2>4. h = [k \in 1 .. m |-> IF k = 1 THEN q[k] ELSE Joined(h[k - 1], q[k])]
    BY <2>3
  <2>5. JoinsThrough(q, m, h)
    BY <2>4, Zenon DEF JoinsThrough
  <2> QED
    BY <2>5
<1> HIDE DEF T
<1>3. T = Nat
  <2>1. T \in SUBSET Nat
    BY DEF T
  <2> QED
    BY <1>1, <1>2, <2>1, Induct
<1> QED
  BY <1>3 DEF T

\* Shapes one after the other are a sequence of what is in them.
LEMMA Flattened ==
  ASSUME NEW S, NEW q \in Seq(Seq(S))
  PROVE  FlattenSeq(q) \in Seq(S)
<1>1. CASE Len(q) = 0
  <2>1. q = << >>
    BY <1>1, EmptySeq
  <2> QED
    BY <1>1, <2>1 DEF FlattenSeq
<1>2. CASE Len(q) # 0
  <2> DEFINE g == CHOOSE f : JoinsThrough(q, Len(q), f)
  <2>1. /\ Len(q) \in Nat \ {0} /\ Len(q) - 1 \in Nat /\ (Len(q) - 1) + 1 = Len(q)
        /\ \A k \in 1 .. Len(q) : q[k] \in Seq(S)
    BY <1>2
  <2>2. JoinsThrough(q, Len(q), g)
    <3>1. \E f : JoinsThrough(q, (Len(q) - 1) + 1, f)
      BY <2>1, JoinsExist
    <3> QED
      BY <2>1, <3>1
  <2>3. FlattenSeq(q) = g[Len(q)]
    BY <1>2, Zenon DEF FlattenSeq, JoinsThrough, Joined
  <2> HIDE DEF g
  <2>4. \A k \in 1 .. Len(q) : g[k] = IF k = 1 THEN q[k] ELSE Joined(g[k - 1], q[k])
    BY <2>2 DEF JoinsThrough
  <2> DEFINE T == {n \in Nat : n + 1 <= Len(q) => g[n + 1] \in Seq(S)}
  <2>5. 0 \in T
    BY <2>1, <2>4
  <2>6. ASSUME NEW n \in T PROVE n + 1 \in T
    <3>1. ASSUME (n + 1) + 1 <= Len(q) PROVE g[(n + 1) + 1] \in Seq(S)
      <4>1. /\ n + 1 <= Len(q) /\ (n + 1) + 1 \in 1 .. Len(q)
            /\ (n + 1) + 1 # 1 /\ ((n + 1) + 1) - 1 = n + 1
        BY <2>1, <3>1
      <4>2. g[(n + 1) + 1] = Joined(g[n + 1], q[(n + 1) + 1])
        BY <2>4, <4>1
      <4>3. g[n + 1] \in Seq(S) /\ q[(n + 1) + 1] \in Seq(S)
        BY <2>1, <4>1
      <4>4. Joined(g[n + 1], q[(n + 1) + 1]) \in Seq(S)
        BY <4>3, ConcatProperties DEF Joined
      <4> QED
        BY <4>2, <4>4
    <3> QED
      BY <3>1
  <2> HIDE DEF T
  <2>7. T = Nat
    <3>1. T \in SUBSET Nat
      BY DEF T
    <3> QED
      BY <2>5, <2>6, <3>1, Induct
  <2>8. Len(q) - 1 \in T
    BY <2>1, <2>7
  <2>9. g[(Len(q) - 1) + 1] \in Seq(S)
    BY <2>1, <2>8 DEF T
  <2> QED
    BY <2>1, <2>3, <2>9
<1> QED
  BY <1>1, <1>2

\* What stands for all corners of the file, and the vertices they ask for.
MeshCorners == 1 .. Len(Corners)

FileVertices == {Vertex(Corners[n]) : n \in MeshCorners}

MeshIsRead ==
  /\ mesh.normals \in BOOLEAN /\ mesh.texcoords \in BOOLEAN
  /\ Corners \in Seq(FileCorners)

\* Indices and vertices that stand for the first n corners.
StandsFor(n, ib, vb) ==
  /\ ib \in Seq(Nat) /\ Len(ib) = n
  /\ vb \in Seq(FileVertices)
  /\ \A k \in 1 .. n : ib[k] < Len(vb) /\ vb[ib[k] + 1] = Vertex(Corners[k])
  /\ \A j \in 1 .. Len(vb) : \E k \in 1 .. n : vb[j] = Vertex(Corners[k])
  /\ \A j, k \in 1 .. Len(vb) : vb[j] = vb[k] => j = k

BoundsOf(n) == {Corners[k].position : k \in 1 .. n}

\* uniqueVertices finds each vertex at its place.
Finds ==
  \A v : v \in DOMAIN uniqueVertices =>
    /\ uniqueVertices[v] \in Nat /\ uniqueVertices[v] < Len(vertices)
    /\ vertices[uniqueVertices[v] + 1] = v

FindsAll == \A k \in 1 .. Len(vertices) : vertices[k] \in DOMAIN uniqueVertices

Imported ==
  /\ corner \in Nat /\ corner <= Len(Corners)
  /\ StandsFor(corner, indices, vertices)
  /\ Finds /\ FindsAll
  /\ desc = [attributes |-> Attributes(mesh), bounds |-> BoundsOf(corner),
             indexCount |-> 0, vertexCount |-> 0]

\* A description and buffers of the whole file.
IsMesh(d, ib, vb) ==
  /\ StandsFor(Len(Corners), ib, vb)
  /\ d.attributes = Attributes(mesh) /\ d.bounds = BoundsOf(Len(Corners))
  /\ d.indexCount = Len(ib) /\ d.vertexCount = Len(vb)

FileHoldsMesh ==
  modelFile # NoModelFile =>
    \E ib, vb : IsMesh(modelFile.desc, ib, vb) /\ modelFile.data = Joined(ib, vb)

AllocatorEmpty ==
  corner = 0 /\ vertices = << >> /\ uniqueVertices = << >> /\ indices = << >>

MeshInv ==
  /\ MeshIsRead
  /\ modelPhase \in {"idle", "import", "loaded", "staged", "uploaded"}
  /\ modelPhase = "import" => Imported
  /\ modelPhase # "import" => AllocatorEmpty
  /\ modelPhase \in {"loaded", "staged", "uploaded"} => IsMesh(desc, staged.ib, staged.vb)
  /\ modelPhase = "uploaded" => /\ model.ib = staged.ib /\ model.vb = staged.vb
                                /\ model.stride = Stride(desc.attributes)
                                /\ model.bounds = desc.bounds
  /\ FileHoldsMesh

\* All layouts of the attributes end where the next vertex starts.
LEMMA StrideIsSize ==
  ASSUME NEW m, m.normals \in BOOLEAN, m.texcoords \in BOOLEAN
  PROVE  Stride(Attributes(m)) = VertexSize
<1> DEFINE a == Attributes(m)
           offset == [position |-> 0, normal |-> 16, texCoord |-> 32, color |-> 48]
           end == [position |-> 12, normal |-> 28, texCoord |-> 48, color |-> 64]
           Attribute == {"position", "normal", "texCoord", "color"}
<1>1. /\ a \in Seq(Attribute) /\ Len(a) \in {2, 3, 4}
      /\ a[Len(a)] = "color"
      /\ \A i \in 2 .. Len(a) : offset[a[i]] >= end[a[i - 1]]
  <2>1. CASE m.normals /\ m.texcoords
    BY <2>1 DEF Attributes
  <2>2. CASE m.normals /\ ~m.texcoords
    BY <2>2 DEF Attributes
  <2>3. CASE ~m.normals /\ m.texcoords
    BY <2>3 DEF Attributes
  <2>4. CASE ~m.normals /\ ~m.texcoords
    BY <2>4 DEF Attributes
  <2> QED
    BY <2>1, <2>2, <2>3, <2>4
<1> HIDE DEF a
<1>2. \A x \in Attribute : /\ Layout[x].offset = offset[x]
                           /\ Layout[x].offset + FormatSize[Layout[x].format] = end[x]
  BY DEF Layout, FormatSize
<1>3. \A i \in 1 .. Len(a) : a[i] \in Attribute /\ Ends(a)[i] = end[a[i]]
  BY <1>1, <1>2 DEF Ends
<1>4. \A i \in 2 .. Len(a) : Layout[a[i]].offset >= Ends(a)[i - 1]
  <2> TAKE i \in 2 .. Len(a)
  <2>1. i \in 1 .. Len(a) /\ i - 1 \in 1 .. Len(a)
    BY <1>1
  <2>2. a[i] \in Attribute /\ Ends(a)[i - 1] = end[a[i - 1]]
    BY <1>3, <2>1
  <2> QED
    BY <1>1, <1>2, <2>2
<1>5. Last(Ends(a)) = 64
  <2>1. Len(Ends(a)) = Len(a)
    BY <1>1 DEF Ends
  <2>2. Ends(a)[Len(a)] = end["color"]
    BY <1>1, <1>3
  <2> QED
    BY <2>1, <2>2 DEF Last
<1>6. Stride(a) = 64
  BY <1>4, <1>5 DEF Stride
<1> QED
  BY <1>6 DEF a, VertexSize

LEMMA MeshShown == MeshInv => MeshAsInFile
<1> SUFFICES ASSUME MeshInv, modelPhase = "uploaded" PROVE MeshAsInFile
  BY DEF MeshAsInFile
<1>1. /\ StandsFor(Len(Corners), model.ib, model.vb)
      /\ model.stride = Stride(Attributes(mesh))
      /\ model.bounds = BoundsOf(Len(Corners))
  BY DEF MeshInv, IsMesh
<1>2. Len(Corners) \in Nat /\ DOMAIN Corners = 1 .. Len(Corners)
  BY DEF MeshInv, MeshIsRead
<1>3. model.stride = VertexSize
  BY <1>1, StrideIsSize DEF MeshInv, MeshIsRead
<1>4. model.bounds = {Corners[i].position : i \in DOMAIN Corners}
  BY <1>1, <1>2, Zenon DEF BoundsOf
<1>5. /\ DOMAIN model.ib = 1 .. Len(Corners) /\ Len(model.ib) = Len(Corners)
      /\ DOMAIN model.vb = 1 .. Len(model.vb) /\ Len(model.vb) \in Nat
  BY <1>1 DEF StandsFor
<1>6. \A i \in DOMAIN model.ib : /\ model.ib[i] + 1 \in DOMAIN model.vb
                                 /\ model.vb[model.ib[i] + 1] = Vertex(Corners[i])
  <2> TAKE i \in DOMAIN model.ib
  <2>1. model.ib[i] \in Nat
    BY <1>1, <1>5 DEF StandsFor
  <2>2. model.ib[i] < Len(model.vb) /\ model.vb[model.ib[i] + 1] = Vertex(Corners[i])
    BY <1>1, <1>5 DEF StandsFor
  <2> QED
    BY <1>5, <2>1, <2>2
<1>7. IsInjective(model.vb)
  BY <1>1, <1>5 DEF IsInjective, StandsFor
<1> QED
  BY <1>3, <1>4, <1>5, <1>6, <1>7 DEF MeshAsInFile

LEMMA InitMesh == ModelInit => MeshInv
<1> SUFFICES ASSUME ModelInit PROVE MeshInv
  OBVIOUS
<1>1. /\ mesh.normals = FALSE /\ mesh.texcoords = FALSE /\ mesh.shapes = << >>
      /\ modelPhase = "idle" /\ AllocatorEmpty /\ modelFile = NoModelFile
  BY DEF ModelInit, AllocatorEmpty
<1>2. Corners = << >>
  BY <1>1 DEF Corners, FlattenSeq
<1>3. MeshIsRead
  <2>1. Corners \in Seq(FileCorners)
    BY <1>2
  <2>2. mesh.normals \in BOOLEAN /\ mesh.texcoords \in BOOLEAN
    BY <1>1, Zenon
  <2> QED
    BY <2>1, <2>2 DEF MeshIsRead
<1>4. FileHoldsMesh
  BY <1>1 DEF FileHoldsMesh
<1> QED
  BY <1>1, <1>3, <1>4 DEF MeshInv

\* Steps that leave the mesh alone.
LEMMA SameMesh ==
  ASSUME mesh' = mesh
  PROVE  /\ Corners' = Corners /\ FileVertices' = FileVertices
         /\ \A d, ib, vb : IsMesh(d, ib, vb)' = IsMesh(d, ib, vb)
         /\ \A n, ib, vb : StandsFor(n, ib, vb)' = StandsFor(n, ib, vb)
         /\ \A n : BoundsOf(n)' = BoundsOf(n)
         /\ MeshIsRead' = MeshIsRead
BY DEF Corners, FileVertices, MeshCorners, Vertex, IsMesh, StandsFor, BoundsOf, MeshIsRead

LEMMA StandsNext ==
  ASSUME mesh' = mesh, NEW n, NEW ib, NEW vb, StandsFor(n, ib, vb),
         corner' = n, indices' = ib, vertices' = vb
  PROVE  StandsFor(corner, indices, vertices)' /\ BoundsOf(corner)' = BoundsOf(n)
<1>1. StandsFor(n, ib, vb)' /\ BoundsOf(n)' = BoundsOf(n)
  BY SameMesh
<1> QED
  BY <1>1 DEF StandsFor, BoundsOf

LEMMA OpenKeeps ==
  ASSUME MeshInv, NEW m \in Meshes, OpenModel(m)
  PROVE  MeshInv'
<1>1. /\ modelPhase = "idle" /\ modelPhase' = "import" /\ mesh' = m
      /\ desc' = [NoDesc EXCEPT !.attributes = Attributes(m)]
      /\ modelFile' = NoModelFile
      /\ UNCHANGED << corner, vertices, uniqueVertices, indices, staged, model >>
  BY DEF OpenModel
<1>2. AllocatorEmpty
  BY <1>1 DEF MeshInv
<1>3. m.normals \in BOOLEAN /\ m.texcoords \in BOOLEAN /\ m.shapes \in Seq(Seq(FileCorners))
  BY MeshesAssumption
<1>4. MeshIsRead'
  BY <1>1, <1>3, Flattened DEF MeshIsRead, Corners
<1>5. /\ corner' = 0 /\ vertices' = << >> /\ indices' = << >> /\ DOMAIN uniqueVertices' = {}
      /\ Len(Corners)' \in Nat
  BY <1>1, <1>2, <1>4 DEF AllocatorEmpty, MeshIsRead
<1>6. StandsFor(corner, indices, vertices)'
  BY <1>5 DEF StandsFor
<1>7. Finds' /\ FindsAll'
  BY <1>5 DEF Finds, FindsAll
<1>8. desc' = [attributes |-> Attributes(m), bounds |-> {}, indexCount |-> 0, vertexCount |-> 0]
  BY <1>1 DEF NoDesc
<1>9. desc' = [attributes |-> Attributes(mesh'), bounds |-> BoundsOf(corner)',
                indexCount |-> 0, vertexCount |-> 0]
  <2>1. BoundsOf(corner)' = {}
    BY <1>5 DEF BoundsOf
  <2> QED
    BY <1>1, <1>8, <2>1
<1>10. corner' \in Nat /\ corner' <= Len(Corners)'
  BY <1>5
<1>11. Imported'
  BY <1>6, <1>7, <1>9, <1>10 DEF Imported
<1> QED
  BY <1>1, <1>4, <1>11 DEF MeshInv, FileHoldsMesh

LEMMA StageKeeps ==
  ASSUME MeshInv, StageModel
  PROVE  MeshInv'
<1>1. /\ modelPhase = "import" /\ modelPhase' = "loaded" /\ mesh' = mesh /\ modelFile' = modelFile
      /\ corner = Len(Corners)
      /\ desc' = [desc EXCEPT !.indexCount = Len(indices), !.vertexCount = Len(vertices)]
      /\ staged' = [ib |-> indices, vb |-> vertices]
      /\ AllocatorEmpty'
  BY DEF StageModel, AllocatorEmpty
<1>2. Imported
  BY <1>1 DEF MeshInv
<1>3. /\ staged'.ib = indices /\ staged'.vb = vertices
      /\ desc'.attributes = Attributes(mesh) /\ desc'.bounds = BoundsOf(Len(Corners))
      /\ desc'.indexCount = Len(indices) /\ desc'.vertexCount = Len(vertices)
  BY <1>1, <1>2 DEF Imported
<1>4. IsMesh(desc', staged'.ib, staged'.vb)
  BY <1>1, <1>2, <1>3 DEF IsMesh, Imported
<1>5. IsMesh(desc, staged.ib, staged.vb)' /\ MeshIsRead' /\ FileHoldsMesh'
  BY <1>1, <1>4, SameMesh DEF MeshInv, FileHoldsMesh
<1> QED
  BY <1>1, <1>5 DEF MeshInv

LEMMA PutTogether ==
  ASSUME NEW d, NEW ib, NEW vb, NEW all, IsMesh(d, ib, vb), all = Joined(ib, vb)
  PROVE  /\ SubSeq(ib, 1, d.indexCount) = ib /\ SubSeq(vb, 1, d.vertexCount) = vb
         /\ SubSeq(all, 1, d.indexCount) = ib
         /\ SubSeq(all, d.indexCount + 1, d.indexCount + d.vertexCount) = vb
<1> DEFINE S == Nat \cup FileVertices
<1>1. /\ ib \in Seq(Nat) /\ vb \in Seq(FileVertices)
      /\ d.indexCount = Len(ib) /\ d.vertexCount = Len(vb)
  BY DEF IsMesh, StandsFor
<1>2. ib \in Seq(S) /\ vb \in Seq(S) /\ Len(ib) \in Nat /\ Len(vb) \in Nat
  BY <1>1
<1> HIDE DEF S
<1>3. SubSeq(ib, 1, Len(ib)) = ib /\ SubSeq(vb, 1, Len(vb)) = vb
  BY <1>2
<1>4. /\ all \in Seq(S) /\ Len(all) = Len(ib) + Len(vb)
      /\ \A k \in 1 .. Len(ib) : all[k] = ib[k]
      /\ \A k \in 1 .. Len(vb) : all[Len(ib) + k] = vb[k]
  BY <1>2 DEF Joined
<1>5. SubSeq(all, 1, Len(ib)) = ib
  BY <1>2, <1>4
<1>6. SubSeq(all, Len(ib) + 1, Len(ib) + Len(vb)) = vb
  <2> DEFINE q == SubSeq(all, Len(ib) + 1, Len(ib) + Len(vb))
  <2>1. /\ q \in Seq(S) /\ Len(q) = Len(vb)
        /\ \A k \in 1 .. Len(vb) : q[k] = all[Len(ib) + k]
    BY <1>2, <1>4
  <2> HIDE DEF q
  <2>2. \A k \in 1 .. Len(q) : q[k] = vb[k]
    BY <1>4, <2>1
  <2>3. q = vb
    BY <1>2, <2>1, <2>2, SeqEqual
  <2> QED
    BY <2>3 DEF q
<1> QED
  BY <1>1, <1>3, <1>5, <1>6

LEMMA SaveKeeps ==
  ASSUME MeshInv, SaveModel
  PROVE  MeshInv'
<1>1. /\ modelPhase = "loaded" /\ modelPhase' = "staged"
      /\ modelFile' = [desc |-> desc,
                       data |-> SubSeq(staged.ib, 1, desc.indexCount)
                                  \o SubSeq(staged.vb, 1, desc.vertexCount)]
      /\ UNCHANGED << mesh, corner, vertices, uniqueVertices, indices, desc, staged, model >>
  BY DEF SaveModel
<1>2. IsMesh(desc, staged.ib, staged.vb) /\ MeshIsRead /\ AllocatorEmpty
  BY <1>1 DEF MeshInv
<1>3. modelFile'.desc = desc /\ modelFile'.data = Joined(staged.ib, staged.vb)
  BY <1>1, <1>2, PutTogether DEF Joined
<1>4. FileHoldsMesh'
  BY <1>1, <1>2, <1>3, SameMesh DEF FileHoldsMesh
<1>5. IsMesh(desc, staged.ib, staged.vb)' /\ MeshIsRead' /\ AllocatorEmpty'
  BY <1>1, <1>2, SameMesh DEF AllocatorEmpty
<1> QED
  BY <1>1, <1>4, <1>5 DEF MeshInv

LEMMA LoadKeeps ==
  ASSUME MeshInv, LoadModelBin
  PROVE  MeshInv'
<1>1. /\ modelPhase = "idle" /\ modelPhase' = "staged" /\ modelFile # NoModelFile
      /\ desc' = modelFile.desc
      /\ staged' = [ib |-> SubSeq(modelFile.data, 1, modelFile.desc.indexCount),
                    vb |-> SubSeq(modelFile.data, modelFile.desc.indexCount + 1,
                                  modelFile.desc.indexCount + modelFile.desc.vertexCount)]
      /\ UNCHANGED << mesh, corner, vertices, uniqueVertices, indices, modelFile, model >>
  BY DEF LoadModelBin
<1>2. PICK ib, vb : IsMesh(modelFile.desc, ib, vb) /\ modelFile.data = Joined(ib, vb)
  BY <1>1 DEF MeshInv, FileHoldsMesh
<1>3. MeshIsRead /\ AllocatorEmpty /\ FileHoldsMesh
  BY <1>1 DEF MeshInv
<1>4. staged'.ib = ib /\ staged'.vb = vb
  BY <1>1, <1>2, PutTogether
<1>5. IsMesh(desc', staged'.ib, staged'.vb)
  BY <1>1, <1>2, <1>4 DEF IsMesh
<1>6. IsMesh(desc, staged.ib, staged.vb)' /\ MeshIsRead' /\ AllocatorEmpty' /\ FileHoldsMesh'
  BY <1>1, <1>3, <1>5, SameMesh DEF AllocatorEmpty, FileHoldsMesh
<1> QED
  BY <1>1, <1>6 DEF MeshInv

LEMMA CreateKeeps ==
  ASSUME MeshInv, CreateBuffers
  PROVE  MeshInv'
<1>1. /\ modelPhase = "staged" /\ modelPhase' = "uploaded"
      /\ model' = [ib     |-> CreateBuffer(staged.ib, desc.indexCount),
                   vb     |-> CreateBuffer(staged.vb, desc.vertexCount),
                   stride |-> Stride(desc.attributes),
                   bounds |-> desc.bounds]
      /\ UNCHANGED << mesh, corner, vertices, uniqueVertices, indices, desc, staged, modelFile >>
  BY DEF CreateBuffers
<1>2. IsMesh(desc, staged.ib, staged.vb) /\ MeshIsRead /\ AllocatorEmpty /\ FileHoldsMesh
  BY <1>1 DEF MeshInv
<1>3. /\ model'.ib = staged.ib /\ model'.vb = staged.vb
      /\ model'.stride = Stride(desc.attributes) /\ model'.bounds = desc.bounds
  BY <1>1, <1>2, PutTogether DEF CreateBuffer
<1>4. /\ IsMesh(desc, staged.ib, staged.vb)' /\ MeshIsRead' /\ AllocatorEmpty' /\ FileHoldsMesh'
  BY <1>1, <1>2, SameMesh DEF AllocatorEmpty, FileHoldsMesh
<1> QED
  BY <1>1, <1>3, <1>4 DEF MeshInv

LEMMA ReleaseKeeps ==
  ASSUME MeshInv, ReleaseModel \/ UNCHANGED modelVars
  PROVE  MeshInv'
<1>1. CASE ReleaseModel
  <2>1. /\ modelPhase = "uploaded" /\ modelPhase' = "idle"
        /\ UNCHANGED << mesh, corner, vertices, uniqueVertices, indices, modelFile >>
    BY <1>1 DEF ReleaseModel
  <2>2. MeshIsRead' /\ AllocatorEmpty' /\ FileHoldsMesh'
    BY <2>1, SameMesh DEF MeshInv, AllocatorEmpty, FileHoldsMesh
  <2> QED
    BY <2>1, <2>2 DEF MeshInv
<1>2. CASE UNCHANGED modelVars
  <2>1. UNCHANGED << modelPhase, mesh, corner, vertices, uniqueVertices, indices, desc, staged,
                     modelFile, model >>
    BY <1>2 DEF modelVars
  <2>2. /\ MeshIsRead' = MeshIsRead /\ AllocatorEmpty' = AllocatorEmpty
        /\ FileHoldsMesh' = FileHoldsMesh /\ Imported' = Imported
    BY <2>1, SameMesh DEF AllocatorEmpty, FileHoldsMesh, Imported, Finds, FindsAll
  <2>3. IsMesh(desc, staged.ib, staged.vb)' = IsMesh(desc, staged.ib, staged.vb)
    BY <2>1, SameMesh
  <2> QED
    BY <2>1, <2>2, <2>3 DEF MeshInv
<1> QED
  BY <1>1, <1>2

\* Every vertex has the position of its corner.
LEMMA PositionIsRead ==
  ASSUME MeshIsRead, NEW c
  PROVE  Vertex(c).position = c.position
<1>1. "position" \in ToSet(Attributes(mesh))
  <2> DEFINE a == Attributes(mesh)
  <2>1. 1 \in DOMAIN a /\ a[1] = "position"
    <3>1. CASE mesh.normals /\ mesh.texcoords
      BY <3>1 DEF Attributes
    <3>2. CASE mesh.normals /\ ~mesh.texcoords
      BY <3>2 DEF Attributes
    <3>3. CASE ~mesh.normals /\ mesh.texcoords
      BY <3>3 DEF Attributes
    <3>4. CASE ~mesh.normals /\ ~mesh.texcoords
      BY <3>4 DEF Attributes
    <3> QED
      BY <3>1, <3>2, <3>3, <3>4
  <2> HIDE DEF a
  <2>2. "position" \in ToSet(a)
    BY <2>1 DEF ToSet
  <2> QED
    BY <2>2 DEF a
<1>2. "position" \in DOMAIN Layout
  BY DEF Layout
<1> QED
  BY <1>1, <1>2 DEF Vertex

\* What the import has so far, one by one.
LEMMA ImportedParts ==
  ASSUME Imported, MeshIsRead
  PROVE  /\ corner \in Nat /\ Len(Corners) \in Nat
         /\ indices \in Seq(Nat) /\ Len(indices) = corner
         /\ vertices \in Seq(FileVertices) /\ Len(vertices) \in Nat
         /\ \A k \in 1 .. corner : indices[k] < Len(vertices)
                                     /\ vertices[indices[k] + 1] = Vertex(Corners[k])
         /\ \A j \in 1 .. Len(vertices) : \E k \in 1 .. corner : vertices[j] = Vertex(Corners[k])
         /\ \A j, k \in 1 .. Len(vertices) : vertices[j] = vertices[k] => j = k
<1>1. /\ corner \in Nat /\ Corners \in Seq(FileCorners) /\ StandsFor(corner, indices, vertices)
  BY DEF Imported, MeshIsRead
<1>2. Len(Corners) \in Nat
  BY <1>1
<1>3. /\ indices \in Seq(Nat) /\ Len(indices) = corner /\ vertices \in Seq(FileVertices)
      /\ \A k \in 1 .. corner : indices[k] < Len(vertices)
                                  /\ vertices[indices[k] + 1] = Vertex(Corners[k])
      /\ \A j \in 1 .. Len(vertices) : \E k \in 1 .. corner : vertices[j] = Vertex(Corners[k])
      /\ \A j, k \in 1 .. Len(vertices) : vertices[j] = vertices[k] => j = k
  BY <1>1, Zenon DEF StandsFor
<1>4. Len(vertices) \in Nat
  BY <1>3
<1> QED
  BY <1>1, <1>2, <1>3, <1>4, Zenon

\* A corner whose vertex is there already takes its index.
LEMMA KnownCorner ==
  ASSUME Imported, MeshIsRead, corner < Len(Corners),
         NEW vertex, vertex = Vertex(Corners[corner + 1]), vertex \in DOMAIN uniqueVertices
  PROVE  /\ StandsFor(corner + 1, Append(indices, uniqueVertices[vertex]), vertices)
         /\ BoundsOf(corner + 1) = BoundsOf(corner)
<1>1. /\ corner \in Nat /\ Len(Corners) \in Nat
      /\ indices \in Seq(Nat) /\ Len(indices) = corner
      /\ vertices \in Seq(FileVertices) /\ Len(vertices) \in Nat
      /\ \A k \in 1 .. corner : indices[k] < Len(vertices)
                                  /\ vertices[indices[k] + 1] = Vertex(Corners[k])
      /\ \A j \in 1 .. Len(vertices) : \E k \in 1 .. corner : vertices[j] = Vertex(Corners[k])
      /\ \A j, k \in 1 .. Len(vertices) : vertices[j] = vertices[k] => j = k
  BY ImportedParts
<1> DEFINE at == uniqueVertices[vertex]
           now == Append(indices, at)
<1>2. at \in Nat /\ at < Len(vertices) /\ vertices[at + 1] = vertex
  BY DEF Imported, Finds
<1> HIDE DEF at
<1>3. /\ now \in Seq(Nat) /\ Len(now) = corner + 1
      /\ \A k \in 1 .. corner : now[k] = indices[k]
      /\ now[corner + 1] = at
  BY <1>1, <1>2
<1> HIDE DEF now
<1>4. \A k \in 1 .. corner + 1 : now[k] < Len(vertices)
                                   /\ vertices[now[k] + 1] = Vertex(Corners[k])
  <2> TAKE k \in 1 .. corner + 1
  <2>1. k \in 1 .. corner \/ k = corner + 1
    BY <1>1
  <2> QED
    BY <1>1, <1>2, <1>3, <2>1
<1>5. StandsFor(corner + 1, now, vertices)
  <2>1. \A j \in 1 .. Len(vertices) : \E k \in 1 .. corner + 1 : vertices[j] = Vertex(Corners[k])
    <3> TAKE j \in 1 .. Len(vertices)
    <3>1. PICK k \in 1 .. corner : vertices[j] = Vertex(Corners[k])
      BY <1>1
    <3>2. k \in 1 .. corner + 1
      BY <1>1
    <3> QED
      BY <3>1, <3>2
  <2> QED
    BY <1>1, <1>3, <1>4, <2>1 DEF StandsFor
<1>6. Corners[corner + 1].position \in BoundsOf(corner)
  <2>1. at + 1 \in 1 .. Len(vertices)
    BY <1>1, <1>2
  <2>2. PICK k \in 1 .. corner : vertex = Vertex(Corners[k])
    BY <1>1, <1>2, <2>1
  <2>3. Corners[k].position = Corners[corner + 1].position
    BY <2>2, PositionIsRead
  <2> QED
    BY <2>3 DEF BoundsOf
<1>7. \A k \in 1 .. corner + 1 : k \in 1 .. corner \/ k = corner + 1
  BY <1>1
<1>8. BoundsOf(corner + 1) = BoundsOf(corner)
  <2>1. ASSUME NEW k \in 1 .. corner + 1 PROVE Corners[k].position \in BoundsOf(corner)
    BY <1>6, <1>7 DEF BoundsOf
  <2>2. ASSUME NEW k \in 1 .. corner PROVE Corners[k].position \in BoundsOf(corner + 1)
    <3>1. k \in 1 .. corner + 1
      BY <1>1
    <3> QED
      BY <3>1 DEF BoundsOf
  <2> QED
    BY <2>1, <2>2, Zenon DEF BoundsOf
<1> QED
  BY <1>5, <1>8 DEF now, at

\* Another one is put at the end, where its index finds it.
LEMMA NewCorner ==
  ASSUME Imported, MeshIsRead, corner < Len(Corners),
         NEW vertex, vertex = Vertex(Corners[corner + 1]), vertex \notin DOMAIN uniqueVertices
  PROVE  /\ StandsFor(corner + 1, Append(indices, Len(vertices)), Append(vertices, vertex))
         /\ BoundsOf(corner + 1) = BoundsOf(corner) \cup {vertex.position}
<1>1. /\ corner \in Nat /\ Len(Corners) \in Nat
      /\ indices \in Seq(Nat) /\ Len(indices) = corner
      /\ vertices \in Seq(FileVertices) /\ Len(vertices) \in Nat
      /\ \A k \in 1 .. corner : indices[k] < Len(vertices)
                                  /\ vertices[indices[k] + 1] = Vertex(Corners[k])
      /\ \A j \in 1 .. Len(vertices) : \E k \in 1 .. corner : vertices[j] = Vertex(Corners[k])
      /\ \A j, k \in 1 .. Len(vertices) : vertices[j] = vertices[k] => j = k
  BY ImportedParts
<1>2. \A j \in 1 .. Len(vertices) : vertices[j] # vertex
  BY DEF Imported, FindsAll
<1>3. vertex \in FileVertices
  <2>1. corner + 1 \in MeshCorners
    BY <1>1 DEF MeshCorners
  <2> QED
    BY <2>1 DEF FileVertices
<1> DEFINE now == Append(indices, Len(vertices))
           all == Append(vertices, vertex)
<1>4. /\ now \in Seq(Nat) /\ Len(now) = corner + 1
      /\ \A k \in 1 .. corner : now[k] = indices[k]
      /\ now[corner + 1] = Len(vertices)
  BY <1>1
<1>5. /\ all \in Seq(FileVertices) /\ Len(all) = Len(vertices) + 1
      /\ \A k \in 1 .. Len(vertices) : all[k] = vertices[k]
      /\ all[Len(vertices) + 1] = vertex
  BY <1>1, <1>3
<1> HIDE DEF now, all
<1>6. \A k \in 1 .. corner + 1 : k \in 1 .. corner \/ k = corner + 1
  BY <1>1
<1>7. \A j \in 1 .. Len(all) : j \in 1 .. Len(vertices) \/ j = Len(vertices) + 1
  BY <1>1, <1>5
<1>8. \A k \in 1 .. corner + 1 : now[k] < Len(all) /\ all[now[k] + 1] = Vertex(Corners[k])
  <2> TAKE k \in 1 .. corner + 1
  <2>1. CASE k \in 1 .. corner
    <3>1. now[k] = indices[k] /\ indices[k] < Len(vertices)
      BY <1>1, <1>4, <2>1
    <3>2. indices[k] \in Nat
      <4>1. indices \in Seq(Nat) /\ k \in 1 .. Len(indices)
        BY <1>1, <2>1
      <4> QED
        BY <4>1
    <3>3. now[k] + 1 \in 1 .. Len(vertices) /\ now[k] < Len(all)
      <4>1. Len(vertices) \in Nat /\ Len(all) = Len(vertices) + 1
        BY <1>1, <1>5
      <4> QED
        BY <4>1, <3>1, <3>2
    <3>4. all[now[k] + 1] = vertices[now[k] + 1]
      BY <1>5, <3>3
    <3>5. vertices[now[k] + 1] = Vertex(Corners[k])
      BY <1>1, <2>1, <3>1
    <3> QED
      BY <3>3, <3>4, <3>5
  <2>2. CASE k = corner + 1
    BY <1>1, <1>4, <1>5, <2>2
  <2> QED
    BY <1>6, <2>1, <2>2
<1>9. \A j \in 1 .. Len(all) : \E k \in 1 .. corner + 1 : all[j] = Vertex(Corners[k])
  <2> TAKE j \in 1 .. Len(all)
  <2>1. CASE j \in 1 .. Len(vertices)
    <3>1. PICK k \in 1 .. corner : vertices[j] = Vertex(Corners[k])
      BY <1>1, <2>1
    <3>2. k \in 1 .. corner + 1 /\ all[j] = Vertex(Corners[k])
      BY <1>1, <1>5, <2>1, <3>1
    <3> QED
      BY <3>2
  <2>2. CASE j = Len(vertices) + 1
    <3>1. corner + 1 \in 1 .. corner + 1
      BY <1>1
    <3> QED
      BY <1>5, <2>2, <3>1
  <2> QED
    BY <1>7, <2>1, <2>2
<1>10. ASSUME NEW j \in 1 .. Len(all), NEW k \in 1 .. Len(all), all[j] = all[k] PROVE j = k
  BY <1>1, <1>2, <1>5, <1>7, <1>10
<1>11. StandsFor(corner + 1, now, all)
  BY <1>4, <1>5, <1>8, <1>9, <1>10 DEF StandsFor
<1>12. vertex.position = Corners[corner + 1].position
  BY PositionIsRead
<1>13. BoundsOf(corner + 1) = BoundsOf(corner) \cup {vertex.position}
  BY <1>1, <1>6, <1>12 DEF BoundsOf
<1> QED
  BY <1>11, <1>13 DEF now, all

LEMMA AddKeeps ==
  ASSUME MeshInv, AddCorner
  PROVE  MeshInv'
<1> DEFINE vertex == Vertex(Corners[corner + 1])
           created == Append(vertices, vertex)
<1>1. /\ modelPhase = "import" /\ corner < Len(Corners) /\ corner' = corner + 1
      /\ UNCHANGED << modelPhase, mesh, staged, modelFile, model >>
  BY DEF AddCorner
<1>2. Imported /\ MeshIsRead /\ FileHoldsMesh
  BY <1>1 DEF MeshInv
<1>3. /\ corner \in Nat /\ Len(Corners) \in Nat
      /\ vertices \in Seq(FileVertices) /\ Len(vertices) \in Nat
      /\ indices \in Seq(Nat)
  BY <1>2 DEF Imported, StandsFor, MeshIsRead
<1>4. vertex \in FileVertices
  <2>1. corner + 1 \in MeshCorners
    BY <1>1, <1>3 DEF MeshCorners
  <2> QED
    BY <2>1 DEF FileVertices
<1>5. CASE vertex \in DOMAIN uniqueVertices
  <2>1. /\ vertices' = FreeVertex(created, Len(created))
        /\ indices' = Append(indices, uniqueVertices[vertex])
        /\ uniqueVertices' = uniqueVertices /\ desc' = desc
    BY <1>5, Zenon DEF AddCorner
  <2>2. vertices' = vertices
    <3> HIDE DEF vertex
    <3>1. Len(created) = Len(vertices) + 1
      BY <1>3, <1>4
    <3>2. vertices' = SubSeq(created, 1, Len(vertices) + 1 - 1)
      BY <2>1, <3>1 DEF FreeVertex, Front
    <3>3. SubSeq(created, 1, Len(vertices)) = vertices
      BY <1>3, <1>4
    <3> QED
      BY <1>3, <3>2, <3>3
  <2>3. /\ StandsFor(corner + 1, indices', vertices)
        /\ BoundsOf(corner + 1) = BoundsOf(corner)
    <3> HIDE DEF vertex
    <3> QED
      BY <1>1, <1>2, <1>5, <2>1, KnownCorner DEF vertex
  <2>4. StandsFor(corner, indices, vertices)' /\ BoundsOf(corner)' = BoundsOf(corner)
    BY <1>1, <2>2, <2>3, StandsNext
  <2>5. Finds' /\ FindsAll'
    BY <1>2, <2>1, <2>2 DEF Imported, Finds, FindsAll
  <2>6. Imported'
    BY <1>1, <1>2, <1>3, <2>1, <2>4, <2>5 DEF Imported, Corners
  <2> QED
    BY <1>1, <1>2, <2>6, SameMesh DEF MeshInv, FileHoldsMesh
<1>6. CASE vertex \notin DOMAIN uniqueVertices
  <2>1. /\ vertices' = created
        /\ uniqueVertices' = [v \in DOMAIN uniqueVertices \cup {vertex} |->
                               IF v = vertex THEN IndexOfLast(created) ELSE uniqueVertices[v]]
        /\ indices' = Append(indices, IndexOfLast(created))
        /\ desc' = [desc EXCEPT !.bounds = desc.bounds \cup {vertex.position}]
    BY <1>6, Zenon DEF AddCorner
  <2>2. /\ IndexOfLast(created) = Len(vertices) /\ Len(created) = Len(vertices) + 1
        /\ created[Len(vertices) + 1] = vertex
        /\ \A k \in 1 .. Len(vertices) : created[k] = vertices[k]
    <3> HIDE DEF vertex
    <3> QED
      BY <1>3, <1>4 DEF IndexOfLast
  <2>3. /\ StandsFor(corner + 1, Append(indices, Len(vertices)), created)
        /\ BoundsOf(corner + 1) = BoundsOf(corner) \cup {vertex.position}
    BY <1>1, <1>2, <1>6, NewCorner
  <2> HIDE DEF vertex, created
  <2>4. StandsFor(corner, indices, vertices)'
        /\ BoundsOf(corner)' = BoundsOf(corner) \cup {vertex.position}
    <3>1. indices' = Append(indices, Len(vertices))
      BY <2>1, <2>2
    <3> QED
      BY <1>1, <2>1, <2>3, <3>1, StandsNext
  <2>5. Finds'
    <3> SUFFICES ASSUME NEW v, v \in DOMAIN uniqueVertices'
                 PROVE  /\ uniqueVertices'[v] \in Nat /\ uniqueVertices'[v] < Len(vertices')
                        /\ vertices'[uniqueVertices'[v] + 1] = v
      BY DEF Finds
    <3>1. CASE v = vertex
      BY <1>3, <2>1, <2>2, <3>1
    <3>2. CASE v # vertex
      <4>1. /\ v \in DOMAIN uniqueVertices /\ uniqueVertices'[v] = uniqueVertices[v]
        BY <2>1, <3>2
      <4>2. /\ uniqueVertices[v] \in Nat /\ uniqueVertices[v] < Len(vertices)
            /\ vertices[uniqueVertices[v] + 1] = v
        BY <1>2, <4>1 DEF Imported, Finds
      <4>3. uniqueVertices[v] + 1 \in 1 .. Len(vertices)
        BY <1>3, <4>2
      <4> QED
        BY <1>3, <2>1, <2>2, <4>1, <4>2, <4>3
    <3> QED
      BY <3>1, <3>2
  <2>6. FindsAll'
    <3> SUFFICES ASSUME NEW k \in 1 .. Len(vertices') PROVE vertices'[k] \in DOMAIN uniqueVertices'
      BY DEF FindsAll
    <3>1. k \in 1 .. Len(vertices) \/ k = Len(vertices) + 1
      BY <1>3, <2>1, <2>2
    <3>2. \A j \in 1 .. Len(vertices) : vertices[j] \in DOMAIN uniqueVertices
      BY <1>2 DEF Imported, FindsAll
    <3> QED
      BY <2>1, <2>2, <3>1, <3>2
  <2>7. desc' = [attributes |-> Attributes(mesh), bounds |-> BoundsOf(corner)',
                 indexCount |-> 0, vertexCount |-> 0]
    BY <1>2, <2>1, <2>4 DEF Imported
  <2>8. corner' \in Nat /\ corner' <= Len(Corners)' /\ mesh' = mesh
    BY <1>1, <1>3, SameMesh
  <2>9. Imported'
    BY <2>4, <2>5, <2>6, <2>7, <2>8 DEF Imported
  <2> QED
    BY <1>1, <1>2, <2>9, SameMesh DEF MeshInv, FileHoldsMesh
<1> QED
  BY <1>5, <1>6

LEMMA NextMesh ==
  ASSUME MeshInv, ModelNext \/ UNCHANGED modelVars
  PROVE  MeshInv'
BY OpenKeeps, AddKeeps, StageKeeps, SaveKeeps, LoadKeeps, CreateKeeps, ReleaseKeeps DEF ModelNext

------------------------------------------------------------------------------
(***************************************************************************)
(* Input.  The events of a queue change only what they are about, so what  *)
(* Tick will know once it has taken them is told by those parts of its     *)
(* state alone.                                                            *)
(***************************************************************************)

MouseEvents == [flag : {"none", "window", "button", "position", "scroll"}, position : Positions,
                inside : BOOLEAN, button : Buttons, action : {"press", "release"}]

KeyEvents == [flag : {"key"}, key : Keys, action : {"press", "release", "repeat"}]

AbsorbsThrough(i, q, n, g) ==
  g = [k \in 0 .. n |-> IF k = 0 THEN i ELSE Absorb(g[k - 1], q[k])]

\* What Absorbed computes: a function with its equation exists for any length.
LEMMA AbsorbsExist == ASSUME NEW i, NEW q PROVE \A n \in Nat : \E g : AbsorbsThrough(i, q, n, g)
<1> DEFINE T == {n \in Nat : \E g : AbsorbsThrough(i, q, n, g)}
<1>1. 0 \in T
  <2>1. AbsorbsThrough(i, q, 0, [k \in 0 .. 0 |-> i])
    BY DEF AbsorbsThrough
  <2> QED
    BY <2>1
<1>2. ASSUME NEW n \in T PROVE n + 1 \in T
  <2>1. PICK g : AbsorbsThrough(i, q, n, g)
    OBVIOUS
  <2> DEFINE h == [k \in 0 .. n + 1 |-> IF k = n + 1 THEN Absorb(g[n], q[n + 1]) ELSE g[k]]
  <2>2. \A k \in 0 .. n : h[k] = g[k] /\ g[k] = IF k = 0 THEN i ELSE Absorb(g[k - 1], q[k])
    BY <2>1 DEF AbsorbsThrough
  <2>3. \A k \in 0 .. n + 1 : h[k] = IF k = 0 THEN i ELSE Absorb(h[k - 1], q[k])
    BY <2>2
  <2>4. h = [k \in 0 .. n + 1 |-> IF k = 0 THEN i ELSE Absorb(h[k - 1], q[k])]
    BY <2>3
  <2>5. AbsorbsThrough(i, q, n + 1, h)
    BY <2>4, Zenon DEF AbsorbsThrough
  <2> QED
    BY <2>5
<1> HIDE DEF T
<1>3. T = Nat
  <2>1. T \in SUBSET Nat
    BY DEF T
  <2> QED
    BY <1>1, <1>2, <2>1, Induct
<1> QED
  BY <1>3 DEF T

\* Tick's states on the way, the last of which is Absorbed.
After(i, q) == CHOOSE g : AbsorbsThrough(i, q, Len(q), g)

LEMMA AfterDef ==
  ASSUME NEW i, NEW q, Len(q) \in Nat
  PROVE  /\ Absorbed(i, q) = After(i, q)[Len(q)]
         /\ After(i, q)[0] = i
         /\ \A n \in 1 .. Len(q) : After(i, q)[n] = Absorb(After(i, q)[n - 1], q[n])
<1>1. AbsorbsThrough(i, q, Len(q), After(i, q))
  BY AbsorbsExist DEF After
<1>2. Absorbed(i, q) = After(i, q)[Len(q)]
  BY Zenon DEF Absorbed, After, AbsorbsThrough
<1> DEFINE g == After(i, q)
<1>3. g = [k \in 0 .. Len(q) |-> IF k = 0 THEN i ELSE Absorb(g[k - 1], q[k])]
  BY <1>1 DEF AbsorbsThrough
<1> HIDE DEF g
<1>4. \A k \in 0 .. Len(q) : g[k] = IF k = 0 THEN i ELSE Absorb(g[k - 1], q[k])
  BY <1>3
<1>5. g[0] = i /\ \A n \in 1 .. Len(q) : g[n] = Absorb(g[n - 1], q[n])
  BY <1>4
<1> QED
  BY <1>2, <1>5 DEF g

LEMMA AbsorbedNone == ASSUME NEW i PROVE Absorbed(i, << >>) = i
<1>1. Len(<< >>) = 0
  OBVIOUS
<1> QED
  BY <1>1, AfterDef

\* An event that comes later is taken last.
LEMMA AbsorbedAppend ==
  ASSUME NEW i, NEW S, NEW q \in Seq(S), NEW e \in S
  PROVE  Absorbed(i, Append(q, e)) = Absorb(Absorbed(i, q), e)
<1> DEFINE r == Append(q, e)
<1>1. /\ Len(q) \in Nat
      /\ Len(r) = Len(q) + 1
      /\ \A n \in 1 .. Len(q) : r[n] = q[n]
      /\ r[Len(q) + 1] = e
  OBVIOUS
<1> HIDE DEF r
<1>2. /\ Absorbed(i, q) = After(i, q)[Len(q)]
      /\ After(i, q)[0] = i
      /\ \A n \in 1 .. Len(q) : After(i, q)[n] = Absorb(After(i, q)[n - 1], q[n])
  BY <1>1, AfterDef
<1>3. /\ Absorbed(i, r) = After(i, r)[Len(r)]
      /\ After(i, r)[0] = i
      /\ \A n \in 1 .. Len(r) : After(i, r)[n] = Absorb(After(i, r)[n - 1], r[n])
  BY <1>1, AfterDef
<1> DEFINE T == {n \in Nat : n <= Len(q) => After(i, r)[n] = After(i, q)[n]}
<1>4. 0 \in T
  BY <1>2, <1>3
<1>5. ASSUME NEW n \in T PROVE n + 1 \in T
  <2>1. ASSUME n + 1 <= Len(q) PROVE After(i, r)[n + 1] = After(i, q)[n + 1]
    <3>1. n + 1 \in 1 .. Len(q) /\ n + 1 \in 1 .. Len(r) /\ n + 1 - 1 = n
      BY <1>1, <2>1
    <3>2. After(i, r)[n] = After(i, q)[n]
      BY <1>1, <2>1
    <3>3. /\ After(i, r)[n + 1] = Absorb(After(i, r)[n], r[n + 1])
          /\ After(i, q)[n + 1] = Absorb(After(i, q)[n], q[n + 1])
      BY <1>2, <1>3, <3>1
    <3> QED
      BY <1>1, <3>1, <3>2, <3>3
  <2> QED
    BY <2>1
<1> HIDE DEF T
<1>6. T = Nat
  <2>1. T \in SUBSET Nat
    BY DEF T
  <2> QED
    BY <1>4, <1>5, <2>1, Induct
<1>7. After(i, r)[Len(q)] = After(i, q)[Len(q)]
  BY <1>1, <1>6 DEF T
<1>8. After(i, r)[Len(q) + 1] = Absorb(After(i, r)[Len(q) + 1 - 1], r[Len(q) + 1])
  BY <1>1, <1>3
<1>9. Len(q) + 1 - 1 = Len(q)
  BY <1>1
<1>10. Absorbed(i, r) = Absorb(Absorbed(i, q), e)
  BY <1>1, <1>2, <1>3, <1>7, <1>8, <1>9
<1> QED
  BY <1>10 DEF r

\* When Tick takes the first event, what it will know stays.
LEMMA AbsorbedTail ==
  ASSUME NEW i, NEW S, NEW q \in Seq(S), q # << >>
  PROVE  Absorbed(Absorb(i, Head(q)), Tail(q)) = Absorbed(i, q)
<1> DEFINE r == Tail(q)
           j == Absorb(i, Head(q))
<1>1. /\ Len(q) \in Nat \ {0}
      /\ Len(r) = Len(q) - 1
      /\ \A n \in 1 .. Len(r) : r[n] = q[n + 1]
      /\ Head(q) = q[1]
  BY HeadTailProperties, EmptySeq
<1>2. j = Absorb(i, q[1])
  BY <1>1
<1> HIDE DEF r, j
<1>3. /\ Absorbed(i, q) = After(i, q)[Len(q)]
      /\ After(i, q)[0] = i
      /\ \A n \in 1 .. Len(q) : After(i, q)[n] = Absorb(After(i, q)[n - 1], q[n])
  BY <1>1, AfterDef
<1>4. Len(r) \in Nat
  BY <1>1
<1>5. /\ Absorbed(j, r) = After(j, r)[Len(r)]
      /\ After(j, r)[0] = j
      /\ \A n \in 1 .. Len(r) : After(j, r)[n] = Absorb(After(j, r)[n - 1], r[n])
  BY <1>4, AfterDef
<1> DEFINE T == {n \in Nat : n <= Len(r) => After(j, r)[n] = After(i, q)[n + 1]}
<1>6. 0 \in T
  <2>1. After(i, q)[1] = Absorb(After(i, q)[1 - 1], q[1])
    BY <1>1, <1>3
  <2> QED
    BY <1>2, <1>3, <1>5, <2>1
<1>7. ASSUME NEW n \in T PROVE n + 1 \in T
  <2>1. ASSUME n + 1 <= Len(r) PROVE After(j, r)[n + 1] = After(i, q)[(n + 1) + 1]
    <3>1. /\ n + 1 \in 1 .. Len(r) /\ n + 1 - 1 = n
          /\ (n + 1) + 1 \in 1 .. Len(q) /\ (n + 1) + 1 - 1 = n + 1
      BY <1>1, <2>1
    <3>2. After(j, r)[n] = After(i, q)[n + 1]
      BY <1>4, <2>1
    <3>3. /\ After(j, r)[n + 1] = Absorb(After(j, r)[n], r[n + 1])
          /\ After(i, q)[(n + 1) + 1] = Absorb(After(i, q)[n + 1], q[(n + 1) + 1])
      BY <1>3, <1>5, <3>1
    <3>4. r[n + 1] = q[(n + 1) + 1]
      BY <1>1, <3>1
    <3> QED
      BY <3>2, <3>3, <3>4
  <2> QED
    BY <2>1
<1> HIDE DEF T
<1>8. T = Nat
  <2>1. T \in SUBSET Nat
    BY DEF T
  <2> QED
    BY <1>6, <1>7, <2>1, Induct
<1>9. After(j, r)[Len(r)] = After(i, q)[Len(r) + 1] /\ Len(r) + 1 = Len(q)
  BY <1>1, <1>4, <1>8 DEF T
<1>10. Absorbed(j, r) = Absorbed(i, q)
  BY <1>3, <1>5, <1>9
<1> QED
  BY <1>10 DEF r, j

\* Two states of Tick that agree on what the mouse, or the keyboard, did.
SameMouse(i, j) == i.position = j.position /\ i.down = j.down

SameKeys(i, j) == i.keys = j.keys

\* They still do when the same events have been taken.
LEMMA AbsorbedSame ==
  ASSUME NEW i, NEW j, NEW q, Len(q) \in Nat
  PROVE  /\ SameMouse(i, j) => SameMouse(Absorbed(i, q), Absorbed(j, q))
         /\ SameKeys(i, j) => SameKeys(Absorbed(i, q), Absorbed(j, q))
<1>1. /\ Absorbed(i, q) = After(i, q)[Len(q)]
      /\ After(i, q)[0] = i
      /\ \A n \in 1 .. Len(q) : After(i, q)[n] = Absorb(After(i, q)[n - 1], q[n])
  BY AfterDef
<1>2. /\ Absorbed(j, q) = After(j, q)[Len(q)]
      /\ After(j, q)[0] = j
      /\ \A n \in 1 .. Len(q) : After(j, q)[n] = Absorb(After(j, q)[n - 1], q[n])
  BY AfterDef
<1> DEFINE Agree(n) == /\ SameMouse(i, j) => SameMouse(After(i, q)[n], After(j, q)[n])
                       /\ SameKeys(i, j) => SameKeys(After(i, q)[n], After(j, q)[n])
           T == {n \in Nat : n <= Len(q) => Agree(n)}
<1>3. 0 \in T
  BY <1>1, <1>2
<1>4. ASSUME NEW n \in T PROVE n + 1 \in T
  <2>1. ASSUME n + 1 <= Len(q) PROVE Agree(n + 1)
    <3>1. n + 1 \in 1 .. Len(q) /\ n + 1 - 1 = n
      BY <2>1
    <3>2. Agree(n)
      BY <2>1
    <3>3. /\ After(i, q)[n + 1] = Absorb(After(i, q)[n], q[n + 1])
          /\ After(j, q)[n + 1] = Absorb(After(j, q)[n], q[n + 1])
      BY <1>1, <1>2, <3>1
    <3> QED
      BY <3>2, <3>3 DEF Absorb, SameMouse, SameKeys
  <2> QED
    BY <2>1
<1> HIDE DEF T
<1>5. T = Nat
  <2>1. T \in SUBSET Nat
    BY DEF T
  <2> QED
    BY <1>3, <1>4, <2>1, Induct
<1>6. Agree(Len(q))
  BY <1>5 DEF T
<1> QED
  BY <1>1, <1>2, <1>6

LEMMA AbsorbKeepsOthers ==
  ASSUME NEW i, NEW e
  PROVE  /\ e.flag = "key" => SameMouse(Absorb(i, e), i)
         /\ e.flag # "key" => SameKeys(Absorb(i, e), i)
BY DEF Absorb, SameMouse, SameKeys

\* What Tick will know of the mouse and of the keyboard.
InputShape(i) ==
  i = [position |-> i.position, last |-> i.last, inside |-> i.inside,
       down |-> i.down, keys |-> i.keys]

DevicesShape ==
  devices = [position |-> devices.position, down |-> devices.down, keys |-> devices.keys]

InputTypes ==
  /\ mouse \in MouseEvents
  /\ mouseQueue \in Seq(MouseEvents)
  /\ keyQueue \in Seq(KeyEvents)
  /\ InputShape(input) /\ DevicesShape

InputInv == InputTypes /\ InputFollowsEvents

LEMMA QueueLengths == ASSUME InputTypes PROVE Len(mouseQueue) \in Nat /\ Len(keyQueue) \in Nat
BY DEF InputTypes

LEMMA InitInput == ViewsInit => InputInv
<1> SUFFICES ASSUME ViewsInit PROVE InputInv
  OBVIOUS
<1>1. InputTypes
  <2>1. mouse \in MouseEvents
    BY ViewsAssumption DEF ViewsInit, MouseEvents
  <2>2. mouseQueue \in Seq(MouseEvents) /\ keyQueue \in Seq(KeyEvents)
    BY DEF ViewsInit
  <2>3. InputShape(input) /\ DevicesShape
    BY DEF ViewsInit, InputShape, DevicesShape
  <2> QED
    BY <2>1, <2>2, <2>3 DEF InputTypes
<1>2. Absorbed(input, mouseQueue) = input /\ Absorbed(input, keyQueue) = input
  BY AbsorbedNone DEF ViewsInit
<1>3. input.position = devices.position /\ input.down = devices.down /\ input.keys = devices.keys
  BY DEF ViewsInit
<1>4. InputFollowsEvents
  BY <1>2, <1>3, Zenon DEF InputFollowsEvents
<1> QED
  BY <1>1, <1>4 DEF InputInv

\* A mouse handler: the event it puts last tells Tick of what it changed.
LEMMA MouseKeeps ==
  ASSUME InputInv, NEW m \in MouseEvents, UpdateMouse(m), DevicesShape',
         devices'.keys = devices.keys,
         m.flag = "key" => FALSE,
         devices'.position = IF m.flag = "position" THEN m.position ELSE devices.position,
         devices'.down = IF m.flag = "button" THEN Turned(devices.down, m.button, m.action)
                         ELSE devices.down
  PROVE  InputInv'
<1>1. /\ mouse' = m /\ mouseQueue' = Append(mouseQueue, m)
      /\ keyQueue' = keyQueue /\ input' = input
  BY DEF UpdateMouse, tickVars
<1>2. InputTypes'
  <2>1. mouseQueue' \in Seq(MouseEvents)
    BY <1>1, AppendProperties DEF InputInv, InputTypes
  <2> QED
    BY <1>1, <2>1 DEF InputInv, InputTypes
<1> DEFINE i == Absorbed(input, mouseQueue)
<1>3. Absorbed(input, Append(mouseQueue, m)) = Absorb(i, m)
  <2>1. mouseQueue \in Seq(MouseEvents)
    BY DEF InputInv, InputTypes
  <2> QED
    BY <2>1, AbsorbedAppend
<1>4. i.position = devices.position /\ i.down = devices.down
  BY DEF InputInv, InputFollowsEvents
<1> HIDE DEF i
<1>5. Absorb(i, m).position = devices'.position /\ Absorb(i, m).down = devices'.down
  BY <1>4 DEF Absorb
<1>6. Absorbed(input, keyQueue).keys = devices.keys
  BY DEF InputInv, InputFollowsEvents
<1>7. InputFollowsEvents'
  BY <1>1, <1>3, <1>5, <1>6, Zenon DEF InputFollowsEvents
<1> QED
  BY <1>2, <1>7 DEF InputInv

LEMMA MouseSteps ==
  ASSUME InputInv,
         \/ \E entered \in BOOLEAN : OnMouseEnter(entered)
         \/ \E b \in Buttons, action \in {"press", "release"} : OnMouseButton(b, action)
         \/ \E p \in Positions : OnMouseCursorPos(p)
         \/ OnScroll
  PROVE  InputInv'
<1>1. mouse \in MouseEvents /\ DevicesShape
  BY DEF InputInv, InputTypes
<1>2. ASSUME NEW entered \in BOOLEAN, OnMouseEnter(entered) PROVE InputInv'
  <2> DEFINE m == [mouse EXCEPT !.inside = entered, !.flag = "window"]
  <2>1. m \in MouseEvents /\ m.flag = "window"
    BY <1>1 DEF MouseEvents
  <2>2. UpdateMouse(m) /\ devices' = devices
    BY <1>2 DEF OnMouseEnter
  <2>3. DevicesShape'
    BY <1>1, <2>2 DEF DevicesShape
  <2> HIDE DEF m
  <2> QED
    BY <2>1, <2>2, <2>3, MouseKeeps
<1>3. ASSUME NEW b \in Buttons, NEW action \in {"press", "release"}, OnMouseButton(b, action)
      PROVE  InputInv'
  <2> DEFINE m == [mouse EXCEPT !.button = b, !.action = action, !.flag = "button"]
  <2>1. m \in MouseEvents /\ m.flag = "button" /\ m.button = b /\ m.action = action
    BY <1>1 DEF MouseEvents
  <2>2. UpdateMouse(m) /\ devices' = [devices EXCEPT !.down = Turned(devices.down, b, action)]
    BY <1>3 DEF OnMouseButton
  <2>3. /\ devices'.position = devices.position /\ devices'.keys = devices.keys
        /\ devices'.down = Turned(devices.down, b, action)
        /\ DevicesShape'
    BY <1>1, <2>2 DEF DevicesShape
  <2> HIDE DEF m
  <2> QED
    BY <2>1, <2>2, <2>3, MouseKeeps
<1>4. ASSUME NEW p \in Positions, OnMouseCursorPos(p) PROVE InputInv'
  <2> DEFINE m == [mouse EXCEPT !.position = p, !.flag = "position"]
  <2>1. m \in MouseEvents /\ m.flag = "position" /\ m.position = p
    BY <1>1 DEF MouseEvents
  <2>2. UpdateMouse(m) /\ devices' = [devices EXCEPT !.position = p]
    BY <1>4 DEF OnMouseCursorPos
  <2>3. /\ devices'.position = p /\ devices'.keys = devices.keys /\ devices'.down = devices.down
        /\ DevicesShape'
    BY <1>1, <2>2 DEF DevicesShape
  <2> HIDE DEF m
  <2> QED
    BY <2>1, <2>2, <2>3, MouseKeeps
<1>5. ASSUME OnScroll PROVE InputInv'
  <2> DEFINE m == [mouse EXCEPT !.flag = "scroll"]
  <2>1. m \in MouseEvents /\ m.flag = "scroll"
    BY <1>1 DEF MouseEvents
  <2>2. UpdateMouse(m) /\ devices' = devices
    BY <1>5 DEF OnScroll
  <2>3. DevicesShape'
    BY <1>1, <2>2 DEF DevicesShape
  <2> HIDE DEF m
  <2> QED
    BY <2>1, <2>2, <2>3, MouseKeeps
<1> QED
  BY <1>2, <1>3, <1>4, <1>5

LEMMA KeySteps ==
  ASSUME InputInv, NEW k \in Keys, NEW action \in {"press", "release", "repeat"}, OnKey(k, action)
  PROVE  InputInv'
<1> DEFINE e == [flag |-> "key", key |-> k, action |-> action]
           i == Absorbed(input, keyQueue)
<1>1. /\ devices' = [devices EXCEPT !.keys = Turned(devices.keys, k, action)]
      /\ keyQueue' = Append(keyQueue, e)
      /\ mouse' = mouse /\ mouseQueue' = mouseQueue /\ input' = input
  BY DEF OnKey, tickVars
<1>2. e \in KeyEvents /\ e.flag = "key" /\ e.key = k /\ e.action = action
  BY DEF KeyEvents
<1> HIDE DEF e
<1>3. /\ devices'.position = devices.position /\ devices'.down = devices.down
      /\ devices'.keys = Turned(devices.keys, k, action)
      /\ DevicesShape'
  BY <1>1 DEF InputInv, InputTypes, DevicesShape
<1>4. InputTypes'
  <2>1. keyQueue' \in Seq(KeyEvents)
    BY <1>1, <1>2, AppendProperties DEF InputInv, InputTypes
  <2> QED
    BY <1>1, <1>3, <2>1 DEF InputInv, InputTypes
<1>5. Absorbed(input, Append(keyQueue, e)) = Absorb(i, e)
  <2>1. keyQueue \in Seq(KeyEvents)
    BY DEF InputInv, InputTypes
  <2> QED
    BY <1>2, <2>1, AbsorbedAppend
<1>6. i.keys = devices.keys
  BY DEF InputInv, InputFollowsEvents
<1> HIDE DEF i
<1>7. Absorb(i, e).keys = devices'.keys
  BY <1>2, <1>3, <1>6 DEF Absorb
<1>8. /\ Absorbed(input, mouseQueue).position = devices.position
      /\ Absorbed(input, mouseQueue).down = devices.down
  BY DEF InputInv, InputFollowsEvents
<1>9. InputFollowsEvents'
  BY <1>1, <1>3, <1>5, <1>7, <1>8, Zenon DEF InputFollowsEvents
<1> QED
  BY <1>4, <1>9 DEF InputInv

\* What Tick did to its state does not matter where the mouse and the keys agree
\* once the queues are taken.
LEMMA BeginKeeps ==
  ASSUME InputInv, BeginTick
  PROVE  InputInv'
<1>1. /\ input' = [input EXCEPT !.last = input.position]
      /\ UNCHANGED << devices, mouse, mouseQueue, keyQueue >>
  BY DEF BeginTick, inputVars
<1>2. InputTypes'
  BY <1>1 DEF InputInv, InputTypes, InputShape, DevicesShape
<1>3. SameMouse(input', input) /\ SameKeys(input', input)
  BY <1>1 DEF InputInv, InputTypes, InputShape, SameMouse, SameKeys
<1>4. /\ SameMouse(Absorbed(input', mouseQueue), Absorbed(input, mouseQueue))
      /\ SameKeys(Absorbed(input', keyQueue), Absorbed(input, keyQueue))
  BY <1>3, QueueLengths, AbsorbedSame DEF InputInv
<1> QED
  BY <1>1, <1>2, <1>4 DEF InputInv, InputFollowsEvents, SameMouse, SameKeys

LEMMA TakeMouseKeeps ==
  ASSUME InputInv, TakeMouse
  PROVE  InputInv'
<1>1. CASE mouseQueue = << >>
  <2>1. UNCHANGED << devices, mouse, mouseQueue, keyQueue, input >>
    BY <1>1 DEF TakeMouse
  <2> QED
    BY <2>1 DEF InputInv, InputTypes, InputShape, DevicesShape, InputFollowsEvents
<1>2. CASE mouseQueue # << >>
  <2> DEFINE e == Head(mouseQueue)
  <2>1. /\ input' = Absorb(input, e) /\ mouseQueue' = Tail(mouseQueue)
        /\ UNCHANGED << devices, mouse, keyQueue >>
    BY <1>2 DEF TakeMouse
  <2>2. e \in MouseEvents /\ Tail(mouseQueue) \in Seq(MouseEvents)
    BY <1>2, HeadTailProperties DEF InputInv, InputTypes
  <2>3. e.flag # "key"
    BY <2>2 DEF MouseEvents
  <2>4. Absorbed(Absorb(input, e), Tail(mouseQueue)) = Absorbed(input, mouseQueue)
    BY <1>2, AbsorbedTail DEF InputInv, InputTypes
  <2> HIDE DEF e
  <2>5. InputShape(input')
    BY <2>1 DEF InputShape, Absorb
  <2>6. InputTypes'
    BY <2>1, <2>2, <2>5 DEF InputInv, InputTypes, DevicesShape, InputShape
  <2>7. SameKeys(Absorbed(Absorb(input, e), keyQueue), Absorbed(input, keyQueue))
    <3>1. SameKeys(Absorb(input, e), input)
      BY <2>3, AbsorbKeepsOthers
    <3> QED
      BY <3>1, QueueLengths, AbsorbedSame DEF InputInv
  <2>8. InputFollowsEvents'
    BY <2>1, <2>4, <2>7 DEF InputInv, InputFollowsEvents, SameKeys
  <2> QED
    BY <2>6, <2>8 DEF InputInv
<1> QED
  BY <1>1, <1>2

LEMMA TakeKeyKeeps ==
  ASSUME InputInv, TakeKey
  PROVE  InputInv'
<1>1. CASE keyQueue = << >>
  <2>1. UNCHANGED << devices, mouse, mouseQueue, keyQueue, input >>
    BY <1>1 DEF TakeKey
  <2> QED
    BY <2>1 DEF InputInv, InputTypes, InputShape, DevicesShape, InputFollowsEvents
<1>2. CASE keyQueue # << >>
  <2> DEFINE e == Head(keyQueue)
  <2>1. /\ input' = Absorb(input, e) /\ keyQueue' = Tail(keyQueue)
        /\ UNCHANGED << devices, mouse, mouseQueue >>
    BY <1>2 DEF TakeKey
  <2>2. e \in KeyEvents /\ Tail(keyQueue) \in Seq(KeyEvents)
    BY <1>2, HeadTailProperties DEF InputInv, InputTypes
  <2>3. e.flag = "key"
    BY <2>2 DEF KeyEvents
  <2>4. Absorbed(Absorb(input, e), Tail(keyQueue)) = Absorbed(input, keyQueue)
    BY <1>2, AbsorbedTail DEF InputInv, InputTypes
  <2> HIDE DEF e
  <2>5. InputShape(input')
    BY <2>1 DEF InputShape, Absorb
  <2>6. InputTypes'
    BY <2>1, <2>2, <2>5 DEF InputInv, InputTypes, DevicesShape, InputShape
  <2>7. SameMouse(Absorbed(Absorb(input, e), mouseQueue), Absorbed(input, mouseQueue))
    <3>1. SameMouse(Absorb(input, e), input)
      BY <2>3, AbsorbKeepsOthers
    <3> QED
      BY <3>1, QueueLengths, AbsorbedSame DEF InputInv
  <2>8. InputFollowsEvents'
    BY <2>1, <2>4, <2>7 DEF InputInv, InputFollowsEvents, SameMouse
  <2> QED
    BY <2>6, <2>8 DEF InputInv
<1> QED
  BY <1>1, <1>2

LEMMA NextInput ==
  ASSUME InputInv, ViewsNext \/ UNCHANGED viewsVars
  PROVE  InputInv'
<1>1. ASSUME UNCHANGED << devices, mouse, mouseQueue, keyQueue, input >> PROVE InputInv'
  BY <1>1 DEF InputInv, InputTypes, InputShape, DevicesShape, InputFollowsEvents
<1>2. CASE \/ \E entered \in BOOLEAN : OnMouseEnter(entered)
           \/ \E b \in Buttons, action \in {"press", "release"} : OnMouseButton(b, action)
           \/ \E p \in Positions : OnMouseCursorPos(p)
           \/ OnScroll
  BY <1>2, MouseSteps
<1>3. CASE \E k \in Keys, action \in {"press", "release", "repeat"} : OnKey(k, action)
  BY <1>3, KeySteps
<1>4. CASE BeginTick \/ TakeMouse \/ TakeKey
  BY <1>4, BeginKeeps, TakeMouseKeeps, TakeKeyKeeps
<1>5. CASE \/ \E e \in Extents : ResizeFramebuffer(e)
           \/ \E who \in {"main", "tick"} : InitializeViews(who)
           \/ InputStateChanged \/ PrepareDraw \/ Render
           \/ BeginDraw \/ CallUpdate \/ CountViews \/ CopyViews
           \/ UNCHANGED viewsVars
  <2>1. UNCHANGED << devices, mouse, mouseQueue, keyQueue, input >>
    BY <1>5 DEF ResizeFramebuffer, InitializeViews, InputStateChanged, PrepareDraw, Render,
                BeginDraw, CallUpdate, CountViews, CopyViews, viewsVars, inputVars, tickVars
  <2> QED
    BY <1>1, <2>1
<1> QED
  BY <1>2, <1>3, <1>4, <1>5 DEF ViewsNext

------------------------------------------------------------------------------
(***************************************************************************)
(* What is shown.  The argument is about updates, the tasks in drawCalls.  *)
(* A step that changes a pose adds an update, so as long as there is none  *)
(* the poses stay, and the copies made since Draw took the last one are    *)
(* right: those of all frames before the one that is being copied.         *)
(***************************************************************************)

\* The views of the present layout, and what a buffer should hold.
ViewNumbers == 1 .. grid[1] * grid[2]

PosesShown == [n \in DOMAIN cameras |-> cameras[n].pose]

Shapes ==
  /\ grid \in Grids
  /\ updates \in Nat
  /\ frame \in Nat
  /\ DOMAIN doing = {"main", "tick", "draw"}
  /\ DOMAIN buffers = 1 .. Frames
  /\ DOMAIN cameras = ViewNumbers

\* What an update under way has done.
Copying ==
  /\ doing.draw \in {"idle", "calls", "count", "copy"}
  /\ doing.draw \in {"count", "copy"} => frame \in 1 .. Frames
  /\ doing.draw = "copy" => 1 .. viewCount = ViewNumbers

Copied ==
  updates = 0 => \A f \in 1 .. Frames :
    doing.draw \in {"idle", "calls"} \/ f < frame => buffers[f] = PosesShown

ShownInv == Shapes /\ Copying /\ Copied

\* All layouts have the views of the present one.
LEMMA SameViews ==
  ASSUME NEW g \in Grids, NEW h \in Grids
  PROVE  1 .. g[1] * g[2] = 1 .. h[1] * h[2]
BY SameCountAssumption

LEMMA InitShown == ViewsInit => ShownInv
<1> SUFFICES ASSUME ViewsInit PROVE ShownInv
  OBVIOUS
<1>1. grid \in Grids
  BY ViewsAssumption DEF ViewsInit
<1>2. Shapes
  BY <1>1 DEF ViewsInit, Shapes, ViewNumbers, InitializedViews
<1>3. Copying /\ Copied
  BY DEF ViewsInit, Copying, Copied
<1> QED
  BY <1>2, <1>3 DEF ShownInv

\* What main and Tick do without a pose, a layout or an update.
LEMMA Aside ==
  ASSUME ShownInv, UNCHANGED << grid, cameras, drawVars >>,
         DOMAIN doing' = {"main", "tick", "draw"}, doing'.draw = doing.draw
  PROVE  ShownInv'
<1>1. Shapes' /\ PosesShown' = PosesShown /\ ViewNumbers' = ViewNumbers
  BY DEF ShownInv, Shapes, ViewNumbers, PosesShown, drawVars
<1> QED
  BY <1>1 DEF ShownInv, Copying, Copied, drawVars

\* main's and Tick's steps do not touch Draw's.
LEMMA DoesOther ==
  ASSUME Shapes, NEW who \in {"main", "tick"}, NEW what, Does(who, what)
  PROVE  DOMAIN doing' = {"main", "tick", "draw"} /\ doing'.draw = doing.draw
BY DEF Shapes, Does

\* Views made anew keep the poses.
LEMMA InitializeKeeps ==
  ASSUME ShownInv, NEW who \in {"main", "tick"}, InitializeViews(who)
  PROVE  ShownInv'
<1>1. DOMAIN doing' = {"main", "tick", "draw"} /\ doing'.draw = doing.draw
  BY DoesOther DEF ShownInv, InitializeViews
<1>2. DOMAIN cameras' = ViewNumbers /\ ViewNumbers' = ViewNumbers
  BY DEF InitializeViews, InitializedViews, ViewNumbers
<1>3. \A n \in ViewNumbers : cameras'[n].pose = cameras[n].pose
  BY DEF InitializeViews, InitializedViews, ViewNumbers, ShownInv, Shapes
<1>4. PosesShown' = PosesShown
  BY <1>2, <1>3 DEF PosesShown, ShownInv, Shapes
<1>5. UNCHANGED << grid, updates, frame, viewCount, buffers >>
  BY DEF InitializeViews, drawVars
<1>6. Shapes'
  BY <1>1, <1>2, <1>5 DEF ShownInv, Shapes
<1> QED
  BY <1>1, <1>2, <1>4, <1>5, <1>6 DEF ShownInv, Copying, Copied

\* Input that moves a camera leaves an update behind.
LEMMA InputKeeps ==
  ASSUME ShownInv, InputStateChanged
  PROVE  ShownInv'
<1>1. DOMAIN doing' = {"main", "tick", "draw"} /\ doing'.draw = doing.draw
  BY DoesOther DEF ShownInv, InputStateChanged
<1>2. UNCHANGED << grid, frame, viewCount, buffers >>
  BY DEF InputStateChanged
<1>3. CASE Forwarded
  <2>1. updates' = updates + 1 /\ DOMAIN cameras' = DOMAIN cameras
    BY <1>3 DEF InputStateChanged, EnqueuedUpdates
  <2>2. Shapes' /\ updates' # 0
    BY <1>1, <1>2, <2>1 DEF ShownInv, Shapes, ViewNumbers
  <2> QED
    BY <1>1, <1>2, <2>2 DEF ShownInv, Copying, Copied, ViewNumbers
<1>4. CASE ~Forwarded
  <2>1. UNCHANGED << grid, cameras, drawVars >>
    BY <1>2, <1>4 DEF InputStateChanged, drawVars
  <2> QED
    BY <1>1, <2>1, Aside
<1> QED
  BY <1>3, <1>4

\* A new layout has as many views.
LEMMA PrepareKeeps ==
  ASSUME ShownInv, PrepareDraw
  PROVE  ShownInv'
<1>1. DOMAIN doing' = {"main", "tick", "draw"} /\ doing'.draw = doing.draw
  BY DoesOther DEF ShownInv, PrepareDraw
<1>2. UNCHANGED << cameras, updates, frame, viewCount, buffers >>
  BY DEF PrepareDraw, drawVars
<1>3. grid' \in Grids
  BY DEF PrepareDraw, ShownInv, Shapes
<1>4. ViewNumbers' = ViewNumbers
  BY <1>3, SameViews DEF ShownInv, Shapes, ViewNumbers
<1>5. Shapes' /\ PosesShown' = PosesShown
  BY <1>1, <1>2, <1>3, <1>4 DEF ShownInv, Shapes, PosesShown
<1> QED
  BY <1>1, <1>2, <1>4, <1>5 DEF ShownInv, Copying, Copied

\* Draw takes an update, copies the cameras frame by frame, and takes the next.
LEMMA DrawKeeps ==
  ASSUME ShownInv, BeginDraw \/ CallUpdate \/ CountViews \/ CopyViews
  PROVE  ShownInv'
<1>1. ViewNumbers' = ViewNumbers /\ PosesShown' = PosesShown
  BY DEF BeginDraw, CallUpdate, CountViews, CopyViews, viewVars, ViewNumbers, PosesShown
<1>2. CASE BeginDraw
  <2>1. doing.draw = "idle" /\ doing' = [doing EXCEPT !.draw = "calls"]
    BY <1>2 DEF BeginDraw, DrawMutexFree, Does
  <2>2. UNCHANGED << viewVars, drawVars >>
    BY <1>2 DEF BeginDraw
  <2> QED
    BY <1>1, <2>1, <2>2 DEF ShownInv, Shapes, Copying, Copied, viewVars, drawVars
<1>3. CASE CallUpdate
  <2>1. doing.draw = "calls" /\ UNCHANGED << viewVars, viewCount, buffers >>
    BY <1>3 DEF CallUpdate
  <2>2. CASE updates > 0
    <3>1. updates' = updates - 1 /\ frame' = 1 /\ doing' = [doing EXCEPT !.draw = "count"]
      BY <1>3, <2>2 DEF CallUpdate, Does
    <3> QED
      BY <1>1, <2>1, <2>2, <3>1, ViewsAssumption DEF ShownInv, Shapes, Copying, Copied, viewVars
  <2>3. CASE ~(updates > 0)
    <3>1. UNCHANGED << updates, frame >> /\ doing' = [doing EXCEPT !.draw = "idle"]
      BY <1>3, <2>3 DEF CallUpdate, Does
    <3> QED
      BY <1>1, <2>1, <3>1 DEF ShownInv, Shapes, Copying, Copied, viewVars
  <2> QED
    BY <2>2, <2>3
<1>4. CASE CountViews
  <2>1. /\ doing.draw = "count" /\ doing' = [doing EXCEPT !.draw = "copy"]
        /\ viewCount' = grid[1] * grid[2]
        /\ UNCHANGED << viewVars, updates, frame, buffers >>
    BY <1>4 DEF CountViews, Does
  <2> QED
    BY <1>1, <2>1 DEF ShownInv, Shapes, Copying, Copied, viewVars, ViewNumbers
<1>5. CASE CopyViews
  <2>1. /\ doing.draw = "copy"
        /\ doing' = [doing EXCEPT !.draw = IF frame < Frames THEN "count" ELSE "calls"]
        /\ frame' = IF frame < Frames THEN frame + 1 ELSE 0
        /\ UNCHANGED << viewVars, updates, viewCount >>
    BY <1>5 DEF CopyViews, Does
  <2>2. frame \in 1 .. Frames /\ 1 .. viewCount = DOMAIN cameras
    BY <2>1 DEF ShownInv, Shapes, Copying
  <2>3. buffers' = [buffers EXCEPT ![frame] = PosesShown]
    BY <1>5, <2>2 DEF CopyViews, PosesShown
  <2>4. DOMAIN buffers' = 1 .. Frames /\ buffers'[frame] = PosesShown
        /\ \A f \in (1 .. Frames) \ {frame} : buffers'[f] = buffers[f]
    BY <2>2, <2>3 DEF ShownInv, Shapes
  <2>5. Shapes' /\ Copying'
    BY <1>1, <2>1, <2>2, <2>4, ViewsAssumption DEF ShownInv, Shapes, Copying, viewVars
  <2>6. ASSUME updates' = 0, NEW f \in 1 .. Frames,
               doing'.draw \in {"idle", "calls"} \/ f < frame'
        PROVE  buffers'[f] = PosesShown
    <3>1. f <= frame
      BY <2>1, <2>2, <2>6, ViewsAssumption DEF ShownInv, Shapes
    <3>2. CASE f = frame
      BY <2>4, <3>2
    <3>3. CASE f < frame
      BY <2>1, <2>2, <2>4, <2>6, <3>3 DEF ShownInv, Copied
    <3> QED
      BY <2>2, <3>1, <3>2, <3>3
  <2> QED
    BY <1>1, <2>5, <2>6 DEF ShownInv, Copied
<1> QED
  BY <1>2, <1>3, <1>4, <1>5

LEMMA NextShown ==
  ASSUME ShownInv, ViewsNext \/ UNCHANGED viewsVars
  PROVE  ShownInv'
<1>1. CASE UNCHANGED viewsVars
  BY <1>1, Aside DEF viewsVars, viewVars, drawVars, ShownInv, Shapes
<1>2. ASSUME NEW m, UpdateMouse(m) PROVE ShownInv'
  BY <1>2, Aside DEF UpdateMouse, viewVars, ShownInv, Shapes
<1>3. CASE \/ \E entered \in BOOLEAN : OnMouseEnter(entered)
           \/ \E b \in Buttons, action \in {"press", "release"} : OnMouseButton(b, action)
           \/ \E p \in Positions : OnMouseCursorPos(p)
           \/ OnScroll
  BY <1>2, <1>3 DEF OnMouseEnter, OnMouseButton, OnMouseCursorPos, OnScroll
<1>4. CASE \E k \in Keys, action \in {"press", "release", "repeat"} : OnKey(k, action)
  BY <1>4, Aside DEF OnKey, viewVars, ShownInv, Shapes
<1>5. CASE \E e \in Extents : ResizeFramebuffer(e)
  BY <1>5, Aside, DoesOther DEF ResizeFramebuffer, ShownInv
<1>6. CASE \E who \in {"main", "tick"} : InitializeViews(who)
  BY <1>6, InitializeKeeps
<1>7. CASE BeginTick
  BY <1>7, Aside, DoesOther DEF BeginTick, viewVars, ShownInv
<1>8. CASE TakeMouse
  <2>1. UNCHANGED doing \/ Does("tick", "keys")
    BY <1>8 DEF TakeMouse
  <2> QED
    BY <1>8, <2>1, Aside, DoesOther DEF TakeMouse, viewVars, ShownInv, Shapes
<1>9. CASE TakeKey
  <2>1. UNCHANGED doing \/ Does("tick", "input")
    BY <1>9 DEF TakeKey
  <2> QED
    BY <1>9, <2>1, Aside, DoesOther DEF TakeKey, viewVars, ShownInv, Shapes
<1>10. CASE InputStateChanged
  BY <1>10, InputKeeps
<1>11. CASE PrepareDraw
  BY <1>11, PrepareKeeps
<1>12. CASE Render
  BY <1>12, Aside, DoesOther DEF Render, viewVars, ShownInv
<1>13. CASE BeginDraw \/ CallUpdate \/ CountViews \/ CopyViews
  BY <1>13, DrawKeeps
<1> QED
  BY <1>1, <1>3, <1>4, <1>5, <1>6, <1>7, <1>8, <1>9, <1>10, <1>11, <1>12, <1>13 DEF ViewsNext

------------------------------------------------------------------------------
(***************************************************************************)
(* Images.  Levels of whole blocks lie one behind the other from their     *)
(* recorded offsets on; the rows a level is compressed from are those it   *)
(* covers; and every block below the counter that no worker holds has been *)
(* written to its place, where no later one goes.                          *)
(***************************************************************************)

\* The blocks of a level, and the units of a block.
Cols(mips, l) == mips[l + 1].width \div 4
Blocks(mips, l) == (mips[l + 1].height \div 4) * Cols(mips, l)
Units(i) == BlockSize(i) \div Unit

\* Level l and those before it are cut into whole blocks.
Whole(mips, l) == \A n \in 1 .. l + 1 : mips[n].width % 4 = 0 /\ mips[n].height % 4 = 0

\* The rows of a level that a worker scales, and that these are even in number
\* wherever a level before l is scaled in shares.
Share(mips, l) == mips[l + 1].height \div Workers
Even(mips, l) == \A k \in 0 .. l - 1 : Share(mips, k) <= 4 \/ Share(mips, k) % 2 = 0

\* The levels that ImageAsRead speaks of.
Good(mips, l) == Whole(mips, l) /\ Even(mips, l)

\* Part p of block k as it should be, and where.
Part(mips, l, k, p) ==
  <<[level |-> l, block |-> k,
     rows |-> [r \in 0 .. 3 |-> RowsUnder(l, 4 * (k \div Cols(mips, l)) + r)]], p>>

Place(i, mips, l, k, p) == mips[l + 1].offset \div Unit + k * Units(i) + p

InPlace(i, mips, data, l, k) ==
  \A p \in 0 .. Units(i) - 1 : data[Place(i, mips, l, k, p)] = Part(mips, l, k, p)

LevelInPlace(i, mips, data, l) == \A k \in 0 .. Blocks(mips, l) - 1 : InPlace(i, mips, data, l, k)

\* All good levels before level n are in place.
FilledTo(i, mips, data, n) ==
  \A l \in 0 .. n - 1 : Good(mips, l) => LevelInPlace(i, mips, data, l)

\* The units of a buffer for all levels.
Room(mips) == 0 .. TotalSize(mips) \div Unit - 1

\* The rows of a level.
RowsRight(mips, rows, l) == \A r \in 0 .. mips[l + 1].height - 1 : rows[r] = RowsUnder(l, r)

\* Where the blocks of level n go.
Onward(mips, to, n) ==
  /\ to \in Nat
  /\ to % Unit = 0
  /\ \A l \in 0 .. n - 1 : Whole(mips, l) => mips[l + 1].offset + mips[l + 1].size <= to
  /\ Whole(mips, n) => to = mips[n + 1].offset

\* An image has been opened.
Opened == image \in Images /\ levels = MipLevels(image)

\* Workers hold blocks that were counted, each another one.
Held(count, counter, holder) ==
  /\ counter \in Nat
  /\ holder \in [Threads -> Nat \cup {Asks, Done}]
  /\ \A w \in Threads : holder[w] >= 0 => holder[w] < count /\ holder[w] < counter
  /\ \A v, w \in Threads : v # w /\ holder[v] >= 0 => holder[w] # holder[v]
  /\ \A w \in Threads : holder[w] = Done => count <= counter

\* The blocks that were counted and are no longer held.
Finished(count, counter, holder) ==
  {k \in 0 .. count - 1 : k < counter /\ \A w \in Threads : holder[w] # k}

\* The level that is compressed has its rows, and what was finished is in place.
LevelUnderWay ==
  Good(levels, level) =>
    /\ RowsRight(levels, src, level)
    /\ \A k \in Finished(BlockCount, blockAtomic, worker) : InPlace(image, levels, staging, level, k)

Compressing ==
  /\ Opened
  /\ level \in 0 .. Len(levels) - 1
  /\ DOMAIN staging = Room(levels)
  /\ FilledTo(image, levels, staging, level)
  /\ Onward(levels, dst, level)
  /\ Held(BlockCount, blockAtomic, worker)
  /\ LevelUnderWay

\* The rows that a worker's share is scaled to.
ScaledTo(mips, l, w) ==
  IF Share(mips, l) > 4
    THEN w * (Share(mips, l) \div 2) ..
           w * (Share(mips, l) \div 2)
             + (Share(mips, l) + (IF w = Workers - 1 THEN mips[l + 1].height % Workers ELSE 0)) \div 2 - 1
    ELSE 0 .. mips[l + 2].height - 1

\* What has been scaled so far.
ScaledRight(mips, l, holder, rows) ==
  Good(mips, l + 1) =>
    \A w \in Threads : holder[w] = Done =>
      \A r \in ScaledTo(mips, l, w) : rows[r] = RowsUnder(l + 1, r)

Scaling ==
  /\ Opened
  /\ level \in 0 .. Len(levels) - 2
  /\ DOMAIN staging = Room(levels)
  /\ FilledTo(image, levels, staging, level + 1)
  /\ Onward(levels, dst, level + 1)
  /\ blockAtomic = 0
  /\ worker \in [Threads -> {Asks, Done}]
  /\ DOMAIN scaled = 0 .. levels[level + 2].height - 1
  /\ Good(levels, level) => RowsRight(levels, src, level)
  /\ ScaledRight(levels, level, worker, scaled)

\* No level is under way.
Resting == level = 0 /\ dst = 0 /\ blockAtomic = 0 /\ worker = AllAsk

\* The data of an image: all levels of it.
DataFilled(i, mips, data) ==
  /\ i \in Images
  /\ mips = MipLevels(i)
  /\ FilledTo(i, mips, data, Len(mips))

\* Each region of a good level has all blocks of it.
TextureRight(mips, regions) ==
  \A l \in 0 .. Len(mips) - 1 : Good(mips, l) =>
    /\ DOMAIN regions[l + 1] = 0 .. Blocks(mips, l) - 1
    /\ \A k \in 0 .. Blocks(mips, l) - 1 : \A p \in DOMAIN regions[l + 1][k] :
         regions[l + 1][k][p] = Part(mips, l, k, p)

Phases == {"idle", "compress", "scale", "loaded", "staged", "uploaded"}

ImageInv ==
  /\ imagePhase \in Phases
  /\ imagePhase = "compress" => Compressing
  /\ imagePhase = "scale" => Scaling
  /\ imagePhase \in Phases \ {"compress", "scale"} => Resting
  /\ imagePhase \in {"loaded", "staged"} => DataFilled(image, levels, staging)
  /\ imagePhase = "uploaded" => Opened /\ TextureRight(levels, texture)
  /\ imageFile # NoFile => DataFilled(image, imageFile.levels, imageFile.data)

\* What a function that is defined from the value before is: some function is so.
Iterates(g, S, a, N, h) ==
  /\ g \in [0 .. N -> S]
  /\ g[0] = a
  /\ \A n \in 1 .. N : g[n] = h[n][g[n - 1]]

LEMMA IteratesExists ==
  ASSUME NEW S, NEW a \in S, NEW N \in Nat, NEW h \in [1 .. N -> [S -> S]]
  PROVE  \E g : Iterates(g, S, a, N, h)
<1> DEFINE Begins(M) == \E g : Iterates(g, S, a, M, h)
           T == {M \in Nat : M <= N => Begins(M)}
<1> HIDE DEF Begins
<1>1. 0 \in T
  <2>1. [n \in 0 .. 0 |-> a] \in [0 .. 0 -> S] /\ [n \in 0 .. 0 |-> a][0] = a
    OBVIOUS
  <2>2. \A n \in 1 .. 0 : FALSE
    OBVIOUS
  <2>3. Begins(0)
    BY <2>1, <2>2, Zenon DEF Begins, Iterates
  <2> QED
    BY <2>3
<1>2. ASSUME NEW M \in T PROVE M + 1 \in T
  <2>1. SUFFICES ASSUME M + 1 <= N PROVE Begins(M + 1)
    OBVIOUS
  <2>2. M \in Nat /\ Begins(M)
    BY <2>1
  <2>3. PICK g \in [0 .. M -> S] : g[0] = a /\ \A n \in 1 .. M : g[n] = h[n][g[n - 1]]
    BY <2>2, Zenon DEF Begins, Iterates
  <2> DEFINE f == [n \in 0 .. M + 1 |-> IF n <= M THEN g[n] ELSE h[M + 1][g[M]]]
  <2>4. M + 1 \in 1 .. N /\ M \in 0 .. M
    BY <2>1, <2>2
  <2>5. h[M + 1][g[M]] \in S
    BY <2>3, <2>4
  <2>6. \A n \in 0 .. M + 1 : n <= M => n \in 0 .. M
    BY <2>2
  <2>7. f \in [0 .. M + 1 -> S]
    BY <2>3, <2>5, <2>6
  <2>8. f[0] = a
    BY <2>2, <2>3
  <2>9. ASSUME NEW n \in 1 .. M + 1 PROVE f[n] = h[n][f[n - 1]]
    <3>1. CASE n = M + 1
      BY <2>2, <3>1
    <3>2. CASE n # M + 1
      <4>1. n \in 1 .. M /\ n - 1 \in 0 .. M + 1 /\ n - 1 <= M /\ n <= M /\ n \in 0 .. M + 1
        BY <2>2, <3>2
      <4> QED
        BY <2>3, <4>1
    <3> QED
      BY <3>1, <3>2
  <2> HIDE DEF f
  <2> QED
    BY <2>7, <2>8, <2>9, Zenon DEF Begins, Iterates
<1> HIDE DEF T
<1>3. T = Nat
  <2>1. T \in SUBSET Nat
    BY DEF T
  <2> QED
    BY <1>1, <1>2, <2>1, Induct
<1>4. N \in T /\ N <= N
  BY <1>3
<1>5. Begins(N)
  BY <1>4 DEF T
<1> QED
  BY <1>5 DEF Begins

LEMMA Powers ==
  /\ \A l \in 0 .. MaxLevels : PowerOfTwo[l] \in Nat
  /\ PowerOfTwo[0] = 1
  /\ \A l \in 0 .. MaxLevels - 1 : PowerOfTwo[l + 1] = 2 * PowerOfTwo[l]
<1> DEFINE double == [m \in Nat |-> 2 * m]
           h == [n \in 1 .. MaxLevels |-> double]
<1>1. MaxLevels \in Nat /\ MaxLevels = 16
  BY DEF MaxLevels
<1>2. h \in [1 .. MaxLevels -> [Nat -> Nat]]
  <2>1. double \in [Nat -> Nat]
    OBVIOUS
  <2> QED
    BY <2>1
<1>21. 1 \in Nat
  OBVIOUS
<1>3. PICK g : Iterates(g, Nat, 1, MaxLevels, h)
  <2> HIDE DEF h
  <2>1. \E g : Iterates(g, Nat, 1, MaxLevels, h)
    BY <1>1, <1>2, <1>21, IteratesExists, Zenon
  <2> QED
    BY <2>1
<1>4. ASSUME NEW n \in 1 .. MaxLevels PROVE g[n] = 2 * g[n - 1]
  <2>1. n - 1 \in 0 .. MaxLevels
    BY <1>1
  <2>2. g[n - 1] \in Nat /\ g[n] = h[n][g[n - 1]]
    BY <1>3, <2>1, Zenon DEF Iterates
  <2> QED
    BY <2>2
<1>5. g = [n \in 0 .. MaxLevels |-> IF n = 0 THEN 1 ELSE 2 * g[n - 1]]
  <2>1. g \in [0 .. MaxLevels -> Nat] /\ g[0] = 1
    BY <1>3, Zenon DEF Iterates
  <2>2. \A n \in 0 .. MaxLevels : n = 0 \/ n \in 1 .. MaxLevels
    BY <1>1
  <2>3. \A n \in 0 .. MaxLevels : g[n] = IF n = 0 THEN 1 ELSE 2 * g[n - 1]
    BY <1>4, <2>1, <2>2
  <2> QED
    BY <2>1, <2>3
<1>6. PowerOfTwo = [n \in 0 .. MaxLevels |-> IF n = 0 THEN 1 ELSE 2 * PowerOfTwo[n - 1]]
  BY <1>5 DEF PowerOfTwo
<1>7. \A n \in 0 .. MaxLevels : PowerOfTwo[n] = IF n = 0 THEN 1 ELSE 2 * PowerOfTwo[n - 1]
  BY <1>6
<1> DEFINE T == {n \in Nat : n <= MaxLevels => PowerOfTwo[n] \in Nat}
<1>8. 0 \in T
  BY <1>1, <1>7
<1>9. ASSUME NEW n \in T PROVE n + 1 \in T
  <2>1. CASE n + 1 <= MaxLevels
    <3>1. n + 1 \in 0 .. MaxLevels /\ n + 1 # 0 /\ (n + 1) - 1 = n /\ PowerOfTwo[n] \in Nat
      BY <1>1, <2>1
    <3> QED
      BY <1>7, <3>1
  <2> QED
    BY <1>1, <2>1
<1> HIDE DEF T
<1>10. T = Nat
  <2>1. T \in SUBSET Nat
    BY DEF T
  <2> QED
    BY <1>8, <1>9, <2>1, Induct
<1>11. \A l \in 0 .. MaxLevels : PowerOfTwo[l] \in Nat
  BY <1>1, <1>10 DEF T
<1>12. ASSUME NEW l \in 0 .. MaxLevels - 1 PROVE PowerOfTwo[l + 1] = 2 * PowerOfTwo[l]
  <2>1. l + 1 \in 0 .. MaxLevels /\ l + 1 # 0 /\ (l + 1) - 1 = l
    BY <1>1
  <2> QED
    BY <1>7, <2>1
<1>13. PowerOfTwo[0] = 1
  BY <1>1, <1>7
<1> QED
  BY <1>11, <1>12, <1>13

LEMMA HalvedIs ==
  ASSUME NEW n \in Nat
  PROVE  /\ Halved(n, 0) = n
         /\ \A l \in 0 .. MaxLevels : Halved(n, l) \in Nat
         /\ \A l \in 0 .. MaxLevels - 1 : Halved(n, l + 1) = Halved(n, l) \div 2
<1> DEFINE half == CHOOSE f : f = [k \in 0 .. MaxLevels |-> IF k = 0 THEN n ELSE f[k - 1] \div 2]
           halve == [m \in Nat |-> m \div 2]
           h == [k \in 1 .. MaxLevels |-> halve]
<1>1. MaxLevels \in Nat
  BY DEF MaxLevels
<1>2. h \in [1 .. MaxLevels -> [Nat -> Nat]]
  <2>1. halve \in [Nat -> Nat]
    OBVIOUS
  <2> QED
    BY <2>1
<1>3. PICK g : Iterates(g, Nat, n, MaxLevels, h)
  <2> HIDE DEF h
  <2>1. \E g : Iterates(g, Nat, n, MaxLevels, h)
    BY <1>1, <1>2, IteratesExists, Zenon
  <2> QED
    BY <2>1
<1>4. ASSUME NEW k \in 1 .. MaxLevels PROVE g[k] = g[k - 1] \div 2
  <2>1. k - 1 \in 0 .. MaxLevels
    BY <1>1
  <2>2. g[k - 1] \in Nat /\ g[k] = h[k][g[k - 1]]
    BY <1>3, <2>1, Zenon DEF Iterates
  <2> QED
    BY <2>2
<1>5. g = [k \in 0 .. MaxLevels |-> IF k = 0 THEN n ELSE g[k - 1] \div 2]
  <2>1. g \in [0 .. MaxLevels -> Nat] /\ g[0] = n
    BY <1>3, Zenon DEF Iterates
  <2>2. \A k \in 0 .. MaxLevels : k = 0 \/ k \in 1 .. MaxLevels
    BY <1>1
  <2>3. \A k \in 0 .. MaxLevels : g[k] = IF k = 0 THEN n ELSE g[k - 1] \div 2
    BY <1>4, <2>1, <2>2
  <2> QED
    BY <2>1, <2>3
<1> HIDE DEF h
<1>6. half = [k \in 0 .. MaxLevels |-> IF k = 0 THEN n ELSE half[k - 1] \div 2]
  BY <1>5
<1>7. \A l : Halved(n, l) = half[l]
  BY DEF Halved
<1> HIDE DEF half
<1>8. half[0] = n /\ \A k \in 1 .. MaxLevels : half[k] = half[k - 1] \div 2
  BY <1>1, <1>6
<1> DEFINE T == {k \in Nat : k <= MaxLevels => half[k] \in Nat}
<1>9. 0 \in T
  BY <1>8
<1>10. ASSUME NEW k \in T PROVE k + 1 \in T
  <2>1. CASE k + 1 <= MaxLevels
    <3>1. k + 1 \in 1 .. MaxLevels /\ (k + 1) - 1 = k /\ half[k] \in Nat
      BY <1>1, <2>1
    <3>2. half[k + 1] = half[k] \div 2
      BY <1>8, <3>1
    <3>3. half[k] \div 2 \in Nat
      BY <3>1
    <3> QED
      BY <3>2, <3>3
  <2> QED
    BY <1>1, <2>1
<1> HIDE DEF T
<1>11. T = Nat
  <2>1. T \in SUBSET Nat
    BY DEF T
  <2> QED
    BY <1>9, <1>10, <2>1, Induct
<1>12. \A l \in 0 .. MaxLevels : half[l] \in Nat
  BY <1>1, <1>11 DEF T
<1>13. ASSUME NEW l \in 0 .. MaxLevels - 1 PROVE half[l + 1] = half[l] \div 2
  <2>1. l + 1 \in 1 .. MaxLevels /\ (l + 1) - 1 = l
    BY <1>1
  <2> QED
    BY <1>8, <2>1
<1> QED
  BY <1>7, <1>8, <1>12, <1>13

LEMMA SumOfIs ==
  ASSUME NEW sizes \in Seq(Nat)
  PROVE  /\ SumOf(sizes, 0) = 0
         /\ \A n \in 0 .. Len(sizes) : SumOf(sizes, n) \in Nat
         /\ \A n \in 0 .. Len(sizes) - 1 : SumOf(sizes, n + 1) = SumOf(sizes, n) + sizes[n + 1]
<1> DEFINE N == Len(sizes)
           sum == CHOOSE f : f = [k \in 0 .. N |-> IF k = 0 THEN 0 ELSE f[k - 1] + sizes[k]]
           h == [k \in 1 .. N |-> [m \in Nat |-> m + sizes[k]]]
<1>1. N \in Nat /\ \A k \in 1 .. N : sizes[k] \in Nat
  OBVIOUS
<1>2. h \in [1 .. N -> [Nat -> Nat]]
  <2>1. ASSUME NEW k \in 1 .. N PROVE [m \in Nat |-> m + sizes[k]] \in [Nat -> Nat]
    BY <1>1
  <2> QED
    BY <2>1
<1>3. PICK g : Iterates(g, Nat, 0, N, h)
  <2>0. 0 \in Nat
    OBVIOUS
  <2> HIDE DEF h, N
  <2>1. \E g : Iterates(g, Nat, 0, N, h)
    BY <1>1, <1>2, <2>0, IteratesExists, Zenon
  <2> QED
    BY <2>1
<1> HIDE DEF N
<1>4. ASSUME NEW k \in 1 .. N PROVE g[k] = g[k - 1] + sizes[k]
  <2>1. k - 1 \in 0 .. N
    BY <1>1
  <2>2. g[k - 1] \in Nat /\ g[k] = h[k][g[k - 1]]
    BY <1>3, <2>1, Zenon DEF Iterates
  <2> QED
    BY <2>2
<1> HIDE DEF h
<1>5. g = [k \in 0 .. N |-> IF k = 0 THEN 0 ELSE g[k - 1] + sizes[k]]
  <2>1. g \in [0 .. N -> Nat] /\ g[0] = 0
    BY <1>3, Zenon DEF Iterates
  <2>2. \A k \in 0 .. N : k = 0 \/ k \in 1 .. N
    BY <1>1
  <2>3. \A k \in 0 .. N : g[k] = IF k = 0 THEN 0 ELSE g[k - 1] + sizes[k]
    BY <1>4, <2>1, <2>2
  <2> QED
    BY <2>1, <2>3
<1>6. sum = [k \in 0 .. N |-> IF k = 0 THEN 0 ELSE sum[k - 1] + sizes[k]]
  BY <1>5
<1>7. \A l : SumOf(sizes, l) = sum[l]
  BY DEF SumOf, N
<1> HIDE DEF sum
<1>8. sum[0] = 0 /\ \A k \in 1 .. N : sum[k] = sum[k - 1] + sizes[k]
  BY <1>1, <1>6
<1> DEFINE T == {k \in Nat : k <= N => sum[k] \in Nat}
<1>9. 0 \in T
  BY <1>8
<1>10. ASSUME NEW k \in T PROVE k + 1 \in T
  <2>1. CASE k + 1 <= N
    <3>1. k + 1 \in 1 .. N /\ (k + 1) - 1 = k /\ sum[k] \in Nat
      BY <1>1, <2>1
    <3>2. sum[k + 1] = sum[k] + sizes[k + 1] /\ sizes[k + 1] \in Nat
      BY <1>1, <1>8, <3>1
    <3> QED
      BY <3>1, <3>2
  <2> QED
    BY <1>1, <2>1
<1> HIDE DEF T
<1>11. T = Nat
  <2>1. T \in SUBSET Nat
    BY DEF T
  <2> QED
    BY <1>9, <1>10, <2>1, Induct
<1>12. \A l \in 0 .. N : sum[l] \in Nat
  BY <1>1, <1>11 DEF T
<1>13. ASSUME NEW l \in 0 .. N - 1 PROVE sum[l + 1] = sum[l] + sizes[l + 1]
  <2>1. l + 1 \in 1 .. N /\ (l + 1) - 1 = l
    BY <1>1
  <2> QED
    BY <1>8, <2>1
<1> QED
  BY <1>7, <1>8, <1>12, <1>13 DEF N

LEMMA EightsAdd ==
  ASSUME NEW a \in Nat, NEW b \in Nat, a % 8 = 0, b % 8 = 0
  PROVE  (a + b) % 8 = 0 /\ (a + b) \div 8 = a \div 8 + b \div 8
<1>1. a = 8 * (a \div 8) /\ b = 8 * (b \div 8)
  OBVIOUS
<1> QED
  BY <1>1

\* Sums grow, and are multiples of 8 when the sizes are.
LEMMA SumsGrow ==
  ASSUME NEW sizes \in Seq(Nat), \A n \in 1 .. Len(sizes) : sizes[n] % 8 = 0
  PROVE  \A n \in 0 .. Len(sizes) :
           SumOf(sizes, n) % 8 = 0 /\ SumOf(sizes, n) <= SumOf(sizes, Len(sizes))
<1> DEFINE N == Len(sizes)
           s(n) == SumOf(sizes, n)
           T == {k \in Nat : k <= N => s(k) % 8 = 0 /\ s(N - k) <= s(N)}
<1>1. N \in Nat /\ \A k \in 1 .. N : sizes[k] \in Nat /\ sizes[k] % 8 = 0
  OBVIOUS
<1>2. /\ s(0) = 0 /\ \A n \in 0 .. N : s(n) \in Nat
      /\ \A n \in 0 .. N - 1 : s(n + 1) = s(n) + sizes[n + 1]
  BY SumOfIs
<1> HIDE DEF s, N
<1>3. 0 \in T
  BY <1>1, <1>2
<1>4. ASSUME NEW k \in T PROVE k + 1 \in T
  <2>1. CASE k + 1 <= N
    <3>1. k \in 0 .. N - 1 /\ k + 1 \in 1 .. N /\ s(k) % 8 = 0 /\ s(k) \in Nat
      BY <1>1, <1>2, <2>1
    <3>2. s(k + 1) = s(k) + sizes[k + 1] /\ sizes[k + 1] \in Nat /\ sizes[k + 1] % 8 = 0
      BY <1>1, <1>2, <3>1
    <3>3. s(k + 1) % 8 = 0
      BY <3>1, <3>2, EightsAdd, SMTT(30)
    <3>4. N - (k + 1) \in 0 .. N - 1 /\ N - (k + 1) + 1 = N - k /\ N - k \in 1 .. N
      BY <1>1, <2>1
    <3>5. s(N - k) = s(N - (k + 1)) + sizes[N - k] /\ s(N - (k + 1)) \in Nat /\ sizes[N - k] \in Nat
      <4> DEFINE m == N - (k + 1)
      <4>1. m \in 0 .. N /\ m \in 0 .. N - 1 /\ m + 1 = N - k
        BY <1>1, <3>4
      <4> HIDE DEF m
      <4>2. s(m + 1) = s(m) + sizes[m + 1] /\ s(m) \in Nat /\ sizes[N - k] \in Nat
        BY <1>1, <1>2, <3>4, <4>1
      <4> QED
        BY <4>1, <4>2 DEF m
    <3>6. s(N - k) <= s(N) /\ N \in 0 .. N
      BY <1>1, <2>1
    <3>7. s(N) \in Nat
      BY <1>2, <3>6
    <3>8. s(N - (k + 1)) <= s(N)
      BY <3>5, <3>6, <3>7
    <3> QED
      BY <3>3, <3>8
  <2> QED
    BY <1>1, <2>1
<1> HIDE DEF T
<1>5. T = Nat
  <2>1. T \in SUBSET Nat
    BY DEF T
  <2> QED
    BY <1>3, <1>4, <2>1, Induct
<1>6. ASSUME NEW n \in 0 .. N PROVE s(n) % 8 = 0 /\ s(n) <= s(N)
  <2>1. n \in T /\ n <= N /\ N - n \in T /\ N - n <= N /\ N - (N - n) = n
    BY <1>1, <1>5
  <2>2. s(n) % 8 = 0 /\ s(N - (N - n)) <= s(N)
    BY <2>1 DEF T
  <2> QED
    BY <2>1, <2>2
<1> QED
  BY <1>6 DEF s, N

LevelFits(mips, i, l) ==
  LET m == mips[l + 1]
  IN  /\ m.width \in Nat /\ m.height \in Nat /\ m.size \in Nat /\ m.offset \in Nat
      /\ m.size % 8 = 0 /\ m.offset % 8 = 0
      /\ m.offset + m.size <= TotalSize(mips)
      /\ m.width % 4 = 0 /\ m.height % 4 = 0 => m.size = Blocks(mips, l) * BlockSize(i)

Follows(mips, l) ==
  /\ mips[l + 2].height = mips[l + 1].height \div 2
  /\ mips[l + 2].offset = mips[l + 1].offset + mips[l + 1].size

\* What is known of the levels of an image.
Fit(mips, i) ==
  /\ Len(mips) \in 1 .. MaxLevels /\ DOMAIN mips = 1 .. Len(mips)
  /\ TotalSize(mips) \in Nat
  /\ mips[1].height = i.height /\ mips[1].offset = 0
  /\ \A l \in 0 .. Len(mips) - 1 : LevelFits(mips, i, l)
  /\ \A l \in 0 .. Len(mips) - 2 : Follows(mips, l)

LEMMA ImageIs ==
  ASSUME NEW i \in Images
  PROVE  i.width \in Nat \ {0} /\ i.height \in Nat \ {0} /\ i.alpha \in BOOLEAN
<1>1. i \in [width : Sides, height : Sides, alpha : BOOLEAN]
  BY ImagesAssumption
<1>2. i.width \in Sides /\ i.height \in Sides /\ i.alpha \in BOOLEAN
  BY <1>1
<1>3. Sides \subseteq Nat \ {0}
  BY DEF Sides
<1> QED
  BY <1>2, <1>3

LEMMA RoundedIs ==
  ASSUME NEW n \in Nat
  PROVE  \E c \in Nat : RoundUp(n, 4) = c * 4 /\ (n % 4 = 0 => c = n \div 4)
<1>1. (n + 4 - 1) \div 4 \in Nat /\ (n % 4 = 0 => (n + 4 - 1) \div 4 = n \div 4)
  OBVIOUS
<1> QED
  BY <1>1 DEF RoundUp

LEMMA SizeIs ==
  ASSUME NEW i \in Images, NEW l \in 0 .. MaxLevels
  PROVE  /\ MipSize(i, l) \in Nat /\ MipSize(i, l) % 8 = 0
         /\ Halved(i.width, l) % 4 = 0 /\ Halved(i.height, l) % 4 = 0 =>
              MipSize(i, l) = (Halved(i.height, l) \div 4) * (Halved(i.width, l) \div 4) * BlockSize(i)
<1> DEFINE w == Halved(i.width, l)
           h == Halved(i.height, l)
<1>1. w \in Nat /\ h \in Nat
  BY ImageIs, HalvedIs
<1> HIDE DEF w, h
<1>2. PICK a \in Nat : RoundUp(w, 4) = a * 4 /\ (w % 4 = 0 => a = w \div 4)
  BY <1>1, RoundedIs
<1>3. PICK b \in Nat : RoundUp(h, 4) = b * 4 /\ (h % 4 = 0 => b = h \div 4)
  BY <1>1, RoundedIs
<1>4. PICK c \in Nat : c = b * a
  <2>1. b * a \in Nat
    BY <1>2, <1>3
  <2> QED
    BY <2>1
<1>5. RoundUp(w, 4) * RoundUp(h, 4) = 16 * c
  <2>1. (a * 4) * (b * 4) = 16 * (b * a)
    OBVIOUS
  <2> QED
    BY <1>2, <1>3, <1>4, <2>1
<1>6. (16 * c) \div 2 = 8 * c
  OBVIOUS
<1>7. MipSize(i, l) = IF i.alpha THEN 16 * c ELSE 8 * c
  BY <1>5, <1>6 DEF MipSize, w, h
<1>8. BlockSize(i) = IF i.alpha THEN 16 ELSE 8
  BY DEF BlockSize
<1>9. MipSize(i, l) = c * BlockSize(i)
  BY <1>7, <1>8, ImageIs
<1>10. MipSize(i, l) \in Nat /\ MipSize(i, l) % 8 = 0
  <2>1. (16 * c) % 8 = 0 /\ (8 * c) % 8 = 0 /\ 16 * c \in Nat /\ 8 * c \in Nat
    OBVIOUS
  <2> QED
    BY <1>7, <2>1, ImageIs
<1>11. w % 4 = 0 /\ h % 4 = 0 => c = (h \div 4) * (w \div 4)
  BY <1>2, <1>3, <1>4
<1> QED
  BY <1>9, <1>10, <1>11 DEF w, h

LEMMA CountIs ==
  ASSUME NEW i \in Images
  PROVE  MipCount(i) \in 1 .. MaxLevels
<1> DEFINE m == Max({i.width, i.height})
           F == {l \in 0 .. MaxLevels - 1 : PowerOfTwo[l] <= m}
<1>1. MaxLevels \in Nat /\ MaxLevels = 16
  BY DEF MaxLevels
<1>2. m \in Nat /\ m >= 1
  <2>1. \E x \in {i.width, i.height} : \A y \in {i.width, i.height} : x >= y
    BY ImageIs
  <2>2. m \in {i.width, i.height}
    BY <2>1 DEF Max
  <2> QED
    BY <2>2, ImageIs
<1> HIDE DEF m
<1>3. IsFiniteSet(0 .. MaxLevels - 1) /\ Cardinality(0 .. MaxLevels - 1) = MaxLevels
  <2>1. 0 \in Int /\ MaxLevels - 1 \in Int
    BY <1>1
  <2>2. IsFiniteSet(0 .. MaxLevels - 1)
        /\ Cardinality(0 .. MaxLevels - 1) = IF 0 > MaxLevels - 1 THEN 0 ELSE (MaxLevels - 1) - 0 + 1
    BY <2>1, FS_Interval
  <2> QED
    BY <1>1, <2>2
<1>4. IsFiniteSet(F) /\ Cardinality(F) <= MaxLevels
  <2>1. F \in SUBSET (0 .. MaxLevels - 1)
    OBVIOUS
  <2> HIDE DEF F
  <2> QED
    BY <1>3, <2>1, FS_Subset
<1>5. 0 \in F
  BY <1>1, <1>2, Powers
<1>6. Cardinality(F) \in Nat /\ Cardinality(F) # 0
  <2> HIDE DEF F
  <2>1. F # {}
    BY <1>5
  <2> QED
    BY <1>4, <2>1, FS_EmptySet, FS_CardinalityType
<1>7. MipCount(i) = Cardinality(F)
  BY DEF MipCount, m
<1> QED
  BY <1>1, <1>4, <1>6, <1>7

LEMMA SizesAre ==
  ASSUME NEW i \in Images
  PROVE  /\ MipSizes(i) \in Seq(Nat) /\ Len(MipSizes(i)) = MipCount(i)
         /\ \A n \in 1 .. Len(MipSizes(i)) : MipSizes(i)[n] = MipSize(i, n - 1) /\ MipSizes(i)[n] % 8 = 0
<1> DEFINE N == MipCount(i)
           s == MipSizes(i)
<1>1. N \in Nat /\ N <= MaxLevels /\ MaxLevels \in Nat
  BY CountIs DEF MaxLevels
<1>2. \A n \in 1 .. N : n - 1 \in 0 .. MaxLevels
  BY <1>1
<1>3. \A n \in 1 .. N : MipSize(i, n - 1) \in Nat /\ MipSize(i, n - 1) % 8 = 0
  BY <1>2, SizeIs
<1>4. s = [n \in 1 .. N |-> MipSize(i, n - 1)]
  BY DEF MipSizes
<1> HIDE DEF N, s
<1>5. s \in Seq(Nat) /\ Len(s) = N
  BY <1>1, <1>3, <1>4
<1> QED
  BY <1>3, <1>4, <1>5 DEF N, s

LEMMA LevelsFit ==
  ASSUME NEW i \in Images
  PROVE  Fit(MipLevels(i), i)
<1> DEFINE N == MipCount(i)
           mips == MipLevels(i)
           sizes == MipSizes(i)
<1>1. N \in 1 .. MaxLevels /\ MaxLevels \in Nat
  BY CountIs DEF MaxLevels
<1>2. sizes \in Seq(Nat) /\ Len(sizes) = N /\ DOMAIN sizes = 1 .. N
  BY SizesAre
<1>3. \A n \in 1 .. N : sizes[n] = MipSize(i, n - 1) /\ sizes[n] % 8 = 0 /\ sizes[n] \in Nat
  BY <1>2, SizesAre
<1>4. mips = [n \in 1 .. N |-> [width |-> Halved(i.width, n - 1), height |-> Halved(i.height, n - 1),
                                size |-> sizes[n], offset |-> SumOf(sizes, n - 1)]]
  BY DEF MipLevels
<1> HIDE DEF mips
<1>5. /\ Len(mips) = N /\ DOMAIN mips = 1 .. N
      /\ \A n \in 1 .. N : /\ mips[n].width = Halved(i.width, n - 1)
                           /\ mips[n].height = Halved(i.height, n - 1)
                           /\ mips[n].size = sizes[n]
                           /\ mips[n].offset = SumOf(sizes, n - 1)
  <2>1. N \in Nat
    BY <1>1
  <2> HIDE DEF N, sizes
  <2> QED
    BY <1>4, <2>1
<1>6. TotalSize(mips) = SumOf(sizes, N)
  <2>1. [n \in DOMAIN mips |-> mips[n].size] = sizes
    <3>1. sizes = [n \in 1 .. N |-> sizes[n]]
      BY <1>2
    <3> HIDE DEF N, sizes
    <3> QED
      BY <1>5, <3>1
  <2> HIDE DEF N, sizes
  <2> QED
    BY <1>5, <2>1 DEF TotalSize
<1> HIDE DEF sizes, N
<1>7. /\ SumOf(sizes, 0) = 0
      /\ \A n \in 0 .. N : SumOf(sizes, n) \in Nat
      /\ \A n \in 0 .. N - 1 : SumOf(sizes, n + 1) = SumOf(sizes, n) + sizes[n + 1]
  BY <1>2, SumOfIs
<1>8. \A n \in 0 .. N : SumOf(sizes, n) % 8 = 0 /\ SumOf(sizes, n) <= SumOf(sizes, N)
  BY <1>2, <1>3, SumsGrow
<1>9. ASSUME NEW l \in 0 .. N - 1 PROVE LevelFits(mips, i, l)
  <2>1. l + 1 \in 1 .. N /\ (l + 1) - 1 = l /\ l \in 0 .. N /\ l + 1 \in 0 .. N /\ l \in 0 .. MaxLevels
    BY <1>1
  <2>2. /\ mips[l + 1].width = Halved(i.width, l) /\ mips[l + 1].height = Halved(i.height, l)
        /\ mips[l + 1].size = sizes[l + 1] /\ mips[l + 1].offset = SumOf(sizes, l)
    BY <1>5, <2>1
  <2>3. Halved(i.width, l) \in Nat /\ Halved(i.height, l) \in Nat
    BY <2>1, ImageIs, HalvedIs
  <2>4. sizes[l + 1] = MipSize(i, l) /\ sizes[l + 1] \in Nat /\ sizes[l + 1] % 8 = 0
    BY <1>3, <2>1
  <2>5. SumOf(sizes, l) \in Nat /\ SumOf(sizes, l) % 8 = 0 /\ SumOf(sizes, l) + sizes[l + 1] <= TotalSize(mips)
    BY <1>6, <1>7, <1>8, <2>1
  <2>6. Halved(i.width, l) % 4 = 0 /\ Halved(i.height, l) % 4 = 0 =>
          sizes[l + 1] = (Halved(i.height, l) \div 4) * (Halved(i.width, l) \div 4) * BlockSize(i)
    BY <2>1, <2>4, SizeIs
  <2> QED
    BY <2>2, <2>3, <2>4, <2>5, <2>6, Zenon DEF LevelFits, Blocks, Cols
<1>10. ASSUME NEW l \in 0 .. N - 2 PROVE Follows(mips, l)
  <2>1. /\ l + 1 \in 1 .. N /\ (l + 1) - 1 = l /\ l + 2 \in 1 .. N /\ (l + 2) - 1 = l + 1
        /\ l \in 0 .. N - 1 /\ l \in 0 .. MaxLevels - 1
    BY <1>1
  <2>2. /\ mips[l + 1].height = Halved(i.height, l) /\ mips[l + 2].height = Halved(i.height, l + 1)
        /\ mips[l + 1].size = sizes[l + 1]
        /\ mips[l + 1].offset = SumOf(sizes, l) /\ mips[l + 2].offset = SumOf(sizes, l + 1)
    BY <1>5, <2>1
  <2>3. Halved(i.height, l + 1) = Halved(i.height, l) \div 2
    BY <2>1, ImageIs, HalvedIs
  <2>4. SumOf(sizes, l + 1) = SumOf(sizes, l) + sizes[l + 1]
    BY <1>7, <2>1
  <2> QED
    BY <2>2, <2>3, <2>4, Zenon DEF Follows
<1>11. mips[1].height = i.height /\ mips[1].offset = 0
  <2>1. 1 \in 1 .. N /\ 1 - 1 = 0
    BY <1>1
  <2>2. Halved(i.height, 0) = i.height
    BY ImageIs, HalvedIs
  <2> QED
    BY <1>5, <1>7, <2>1, <2>2
<1>12. TotalSize(mips) \in Nat
  <2>1. N \in 0 .. N
    BY <1>1
  <2> QED
    BY <1>6, <1>7, <2>1
<1>13. Fit(mips, i)
  BY <1>1, <1>5, <1>9, <1>10, <1>11, <1>12, Zenon DEF Fit
<1> QED
  BY <1>13 DEF mips

LEMMA UnitsAre ==
  ASSUME NEW i \in Images
  PROVE  Units(i) \in {1, 2} /\ BlockSize(i) = 8 * Units(i)
<1>1. BlockSize(i) \in {8, 16}
  BY DEF BlockSize
<1>2. Units(i) = BlockSize(i) \div 8
  BY DEF Units, Unit
<1> QED
  BY <1>1, <1>2

LEMMA BlocksAre ==
  ASSUME NEW i \in Images, NEW mips, Fit(mips, i), NEW l \in 0 .. Len(mips) - 1
  PROVE  /\ Cols(mips, l) \in Nat /\ Blocks(mips, l) \in Nat
         /\ mips[l + 1].height \in Nat /\ mips[l + 1].offset \in Nat /\ mips[l + 1].size \in Nat
         /\ mips[l + 1].offset % 8 = 0
         /\ mips[l + 1].offset + mips[l + 1].size <= TotalSize(mips)
         /\ Whole(mips, l) =>
              /\ mips[l + 1].size = Blocks(mips, l) * BlockSize(i)
              /\ mips[l + 1].width % 4 = 0 /\ mips[l + 1].height % 4 = 0
<1>1. LevelFits(mips, i, l)
  BY DEF Fit
<1>2. mips[l + 1].width \in Nat /\ mips[l + 1].height \in Nat
  BY <1>1 DEF LevelFits
<1>3. Cols(mips, l) \in Nat /\ mips[l + 1].height \div 4 \in Nat
  BY <1>2 DEF Cols
<1>4. \A a, b \in Nat : a * b \in Nat
  OBVIOUS
<1>5. Blocks(mips, l) \in Nat
  BY <1>3, <1>4, Zenon DEF Blocks
<1>6. Whole(mips, l) => mips[l + 1].width % 4 = 0 /\ mips[l + 1].height % 4 = 0
  <2>1. l + 1 \in 1 .. l + 1
    OBVIOUS
  <2> QED
    BY <2>1, Zenon DEF Whole
<1> QED
  BY <1>1, <1>2, <1>3, <1>5, <1>6, Zenon DEF LevelFits

LEMMA WithinLevel ==
  ASSUME NEW off \in Nat, NEW b \in Nat, NEW total \in Nat, NEW u \in {1, 2},
         NEW k \in 0 .. b - 1, NEW p \in 0 .. u - 1, off % 8 = 0, off + b * (8 * u) <= total
  PROVE  /\ off \div 8 + k * u + p \in 0 .. total \div 8 - 1
         /\ 8 * (off \div 8 + k * u + p) + 8 <= off + b * (8 * u)
<1> DEFINE o == off \div 8
           m == k * u + p
           s == b * u
<1>1. o \in Nat /\ off = 8 * o
  OBVIOUS
<1>2. m \in Nat /\ s \in Nat /\ m + 1 <= s /\ b * (8 * u) = 8 * s
  <2>1. CASE u = 1
    BY <2>1
  <2>2. CASE u = 2
    BY <2>2
  <2> QED
    BY <2>1, <2>2
<1>3. o + k * u + p = o + m
  BY <1>1
<1> HIDE DEF o, m, s
<1>4. o + m \in 0 .. total \div 8 - 1 /\ 8 * (o + m) + 8 <= off + b * (8 * u)
  BY <1>1, <1>2
<1> QED
  BY <1>3, <1>4 DEF o

LEMMA PlaceFits ==
  ASSUME NEW i \in Images, NEW mips, Fit(mips, i), NEW l \in 0 .. Len(mips) - 1, Whole(mips, l),
         NEW k \in 0 .. Blocks(mips, l) - 1, NEW p \in 0 .. Units(i) - 1
  PROVE  /\ Place(i, mips, l, k, p) \in Room(mips)
         /\ 8 * Place(i, mips, l, k, p) + 8 <= mips[l + 1].offset + mips[l + 1].size
<1> DEFINE b == Blocks(mips, l)
           off == mips[l + 1].offset
           total == TotalSize(mips)
           u == Units(i)
<1>1. /\ b \in Nat /\ off \in Nat /\ off % 8 = 0 /\ mips[l + 1].size = b * BlockSize(i)
      /\ off + mips[l + 1].size <= total
  BY BlocksAre
<1>2. u \in {1, 2} /\ BlockSize(i) = 8 * u
  BY UnitsAre
<1>3. total \in Nat
  BY DEF Fit
<1>4. Place(i, mips, l, k, p) = off \div 8 + k * u + p /\ Room(mips) = 0 .. total \div 8 - 1
  BY DEF Place, Room, Unit
<1>5. k \in 0 .. b - 1 /\ p \in 0 .. u - 1
  OBVIOUS
<1>6. off \div 8 + k * u + p \in 0 .. total \div 8 - 1
      /\ 8 * (off \div 8 + k * u + p) + 8 <= off + b * (8 * u)
  <2> HIDE DEF b, off, total, u
  <2> QED
    BY <1>1, <1>2, <1>3, <1>5, WithinLevel
<1> QED
  BY <1>1, <1>2, <1>4, <1>6, Zenon

\* What lies below where a level begins stays when only what is above changes.
LEMMA FilledBelow ==
  ASSUME NEW i \in Images, NEW mips, Fit(mips, i), NEW n \in 0 .. Len(mips), NEW data, NEW d2,
         FilledTo(i, mips, data, n), NEW to \in Nat,
         \A l \in 0 .. n - 1 : Whole(mips, l) => mips[l + 1].offset + mips[l + 1].size <= to,
         \A u \in Room(mips) : 8 * u + 8 <= to => d2[u] = data[u]
  PROVE  FilledTo(i, mips, d2, n)
<1> SUFFICES ASSUME NEW l \in 0 .. n - 1, Good(mips, l), NEW k \in 0 .. Blocks(mips, l) - 1,
                    NEW p \in 0 .. Units(i) - 1
             PROVE  d2[Place(i, mips, l, k, p)] = Part(mips, l, k, p)
  BY Zenon DEF FilledTo, LevelInPlace, InPlace
<1>1. l \in 0 .. Len(mips) - 1 /\ Whole(mips, l)
  <2>1. Len(mips) \in Nat
    BY DEF Fit, MaxLevels
  <2> QED
    BY <2>1 DEF Good
<1>2. data[Place(i, mips, l, k, p)] = Part(mips, l, k, p)
  BY Zenon DEF FilledTo, LevelInPlace, InPlace
<1> DEFINE q == Place(i, mips, l, k, p)
<1>3. q \in Room(mips) /\ 8 * q + 8 <= mips[l + 1].offset + mips[l + 1].size
  BY <1>1, PlaceFits, Zenon
<1>4. mips[l + 1].offset + mips[l + 1].size <= to /\ mips[l + 1].offset \in Nat /\ mips[l + 1].size \in Nat
  BY <1>1, BlocksAre
<1> HIDE DEF q
<1>5. q \in Nat
  BY <1>3 DEF Room
<1>6. 8 * q + 8 <= to
  BY <1>3, <1>4, <1>5
<1> QED
  BY <1>2, <1>3, <1>6, Zenon DEF q

LEMMA FilledSame ==
  ASSUME NEW i \in Images, NEW mips, Fit(mips, i), NEW n \in 0 .. Len(mips), NEW data, NEW d2,
         FilledTo(i, mips, data, n), \A u \in Room(mips) : d2[u] = data[u]
  PROVE  FilledTo(i, mips, d2, n)
<1>1. TotalSize(mips) \in Nat /\ Len(mips) \in Nat
  BY DEF Fit, MaxLevels
<1>2. \A l \in 0 .. n - 1 : Whole(mips, l) => mips[l + 1].offset + mips[l + 1].size <= TotalSize(mips)
  <2> SUFFICES ASSUME NEW l \in 0 .. n - 1
               PROVE  mips[l + 1].offset + mips[l + 1].size <= TotalSize(mips)
    OBVIOUS
  <2>1. l \in 0 .. Len(mips) - 1
    BY <1>1
  <2> QED
    BY <2>1, BlocksAre
<1> QED
  BY <1>1, <1>2, FilledBelow, Zenon

\* A block's row of blocks is one of the level's.
LEMMA RowBelow ==
  ASSUME NEW a \in Nat, NEW c \in Nat, NEW k \in Nat, k < a * c
  PROVE  k \div c \in 0 .. a - 1
<1>1. c > 0
  <2>1. CASE c = 0
    <3>1. a * c = 0
      BY <2>1
    <3> QED
      BY <3>1
  <2> QED
    BY <2>1
<1> DEFINE q == k \div c
<1>2. q \in Nat /\ q * c <= k
  BY <1>1
<1> HIDE DEF q
<1>3. CASE q >= a
  <2>1. q * c >= a * c
    BY <1>1, <1>2, <1>3
  <2> QED
    BY <1>2, <2>1
<1> QED
  BY <1>2, <1>3 DEF q

LEMMA BlockRows ==
  ASSUME NEW i \in Images, NEW mips, Fit(mips, i), NEW l \in 0 .. Len(mips) - 1, Whole(mips, l),
         NEW k \in 0 .. Blocks(mips, l) - 1, NEW rows, RowsRight(mips, rows, l), NEW r \in 0 .. 3
  PROVE  rows[4 * (k \div Cols(mips, l)) + r] = RowsUnder(l, 4 * (k \div Cols(mips, l)) + r)
<1> DEFINE a == mips[l + 1].height \div 4
           c == Cols(mips, l)
           q == k \div c
<1>1. /\ mips[l + 1].height \in Nat /\ mips[l + 1].height % 4 = 0
      /\ c \in Nat /\ Blocks(mips, l) \in Nat
  BY BlocksAre
<1>2. Blocks(mips, l) = a * c
  BY DEF Blocks
<1>3. k \in Nat /\ k < a * c
  BY <1>1, <1>2
<1>4. a \in Nat
  BY <1>1
<1>5. q \in 0 .. a - 1
  <2> HIDE DEF a, c
  <2> QED
    BY <1>1, <1>3, <1>4, RowBelow
<1> HIDE DEF q
<1>6. mips[l + 1].height = 4 * a
  BY <1>1
<1> HIDE DEF a
<1>7. 4 * q + r \in 0 .. mips[l + 1].height - 1
  BY <1>4, <1>5, <1>6
<1>8. rows[4 * q + r] = RowsUnder(l, 4 * q + r)
  BY <1>7, Zenon DEF RowsRight
<1> QED
  BY <1>8 DEF q

LEMMA HalvesAre ==
  ASSUME NEW i \in Images, NEW mips, Fit(mips, i), NEW l \in 0 .. Len(mips) - 2, Whole(mips, l + 1)
  PROVE  /\ Whole(mips, l)
         /\ mips[l + 2].height \in Nat /\ mips[l + 1].height = 2 * mips[l + 2].height
<1>1. Len(mips) \in Nat /\ l \in Nat
  BY DEF Fit, MaxLevels
<1>2. Whole(mips, l)
  <2>1. \A n \in 1 .. l + 1 : n \in 1 .. (l + 1) + 1
    BY <1>1
  <2> QED
    BY <2>1, Zenon DEF Whole
<1>3. l \in 0 .. Len(mips) - 1
  BY <1>1
<1>4. mips[l + 1].height \in Nat /\ mips[l + 1].height % 4 = 0
  BY <1>2, <1>3, BlocksAre
<1>5. mips[l + 2].height = mips[l + 1].height \div 2
  BY DEF Fit, Follows
<1> QED
  BY <1>2, <1>4, <1>5

LEMMA GoodBefore ==
  ASSUME NEW mips, NEW l \in Nat, Good(mips, l + 1)
  PROVE  Good(mips, l) /\ Whole(mips, l + 1) /\ (Share(mips, l) <= 4 \/ Share(mips, l) % 2 = 0)
<1>1. Whole(mips, l + 1) /\ Even(mips, l + 1)
  BY DEF Good
<1>2. Whole(mips, l)
  <2>1. \A n \in 1 .. l + 1 : n \in 1 .. (l + 1) + 1
    OBVIOUS
  <2> QED
    BY <1>1, <2>1, Zenon DEF Whole
<1>3. \A k \in 0 .. l - 1 : k \in 0 .. (l + 1) - 1
  OBVIOUS
<1>4. l \in 0 .. (l + 1) - 1
  OBVIOUS
<1> QED
  BY <1>1, <1>2, <1>3, <1>4, Zenon DEF Even, Good

\* Two rows under one another are one row of the next level.
LEMMA RowsJoin ==
  ASSUME NEW l \in 0 .. MaxLevels - 1, NEW t \in Nat
  PROVE  RowsUnder(l, 2 * t) \cup RowsUnder(l, 2 * t + 1) = RowsUnder(l + 1, t)
<1> DEFINE T == PowerOfTwo[l]
           x == t * T
<1>1. MaxLevels \in Nat
  BY DEF MaxLevels
<1>2. T \in Nat /\ PowerOfTwo[l + 1] = 2 * T
  BY <1>1, Powers
<1> HIDE DEF T
<1>3. x \in Nat /\ 2 * t * T = 2 * x /\ (2 * t + 1) * T = 2 * x + T /\ ((2 * t + 1) + 1) * T = 2 * x + 2 * T
  BY <1>2
<1>4. t * (2 * T) = 2 * x /\ (t + 1) * (2 * T) = 2 * x + 2 * T
  BY <1>2
<1> HIDE DEF x
<1>5. RowsUnder(l, 2 * t) = 2 * x .. (2 * x + T) - 1
  BY <1>3 DEF RowsUnder, T
<1>6. RowsUnder(l, 2 * t + 1) = 2 * x + T .. (2 * x + 2 * T) - 1
  BY <1>3 DEF RowsUnder, T
<1>7. RowsUnder(l + 1, t) = 2 * x .. (2 * x + 2 * T) - 1
  BY <1>2, <1>4 DEF RowsUnder
<1>8. (2 * x .. (2 * x + T) - 1) \cup (2 * x + T .. (2 * x + 2 * T) - 1) = 2 * x .. (2 * x + 2 * T) - 1
  BY <1>2, <1>3
<1> QED
  BY <1>5, <1>6, <1>7, <1>8

LEMMA Cancels ==
  ASSUME NEW x \in Int, NEW y \in Int, NEW m \in Nat, m > 0
  PROVE  x * m < y * m <=> x < y
<1>1. CASE x < y
  BY <1>1
<1>2. CASE x >= y
  BY <1>2
<1> QED
  BY <1>1, <1>2

\* A row that is scaled to half the number of rows is made from two.
LEMMA TwoRows ==
  ASSUME NEW first \in Nat, NEW m \in Nat, NEW r \in 0 .. m - 1
  PROVE  ScaledRow(first, 2 * m, m, r) = src[first + 2 * r] \cup src[first + (2 * r + 1)]
<1>1. {p \in first .. first + 2 * m - 1 : r * (2 * m) < (p - first + 1) * m /\ (p - first) * m < (r + 1) * (2 * m)}
        = {first + 2 * r, first + (2 * r + 1)}
  <2>1. m > 0 /\ r \in Nat /\ r < m
    OBVIOUS
  <2>2. r * (2 * m) = (2 * r) * m /\ (r + 1) * (2 * m) = (2 * r + 2) * m
    BY <2>1
  <2>3. ASSUME NEW p \in first .. first + 2 * m - 1
        PROVE  r * (2 * m) < (p - first + 1) * m /\ (p - first) * m < (r + 1) * (2 * m)
                 <=> p = first + 2 * r \/ p = first + (2 * r + 1)
    <3>1. (2 * r) * m < (p - first + 1) * m <=> 2 * r < p - first + 1
      <4>1. 2 * r \in Int /\ p - first + 1 \in Int
        BY <2>1
      <4> QED
        BY <2>1, <4>1, Cancels
    <3>2. (p - first) * m < (2 * r + 2) * m <=> p - first < 2 * r + 2
      <4>1. 2 * r + 2 \in Int /\ p - first \in Int
        BY <2>1
      <4> QED
        BY <2>1, <4>1, Cancels
    <3>3. 2 * r < p - first + 1 /\ p - first < 2 * r + 2 <=> p = first + 2 * r \/ p = first + (2 * r + 1)
      BY <2>1
    <3> QED
      BY <2>2, <3>1, <3>2, <3>3, Zenon
  <2>4. first + 2 * r \in first .. first + 2 * m - 1 /\ first + (2 * r + 1) \in first .. first + 2 * m - 1
    BY <2>1
  <2> QED
    BY <2>3, <2>4, Zenon
<1>2. ScaledRow(first, 2 * m, m, r) = UNION {src[q] : q \in {first + 2 * r, first + (2 * r + 1)}}
  BY <1>1, Zenon DEF ScaledRow
<1>3. UNION {src[q] : q \in {first + 2 * r, first + (2 * r + 1)}} = src[first + 2 * r] \cup src[first + (2 * r + 1)]
  BY Zenon
<1> QED
  BY <1>2, <1>3

LEMMA ScaledRowRight ==
  ASSUME NEW i \in Images, NEW mips, Fit(mips, i), NEW l \in 0 .. Len(mips) - 2,
         RowsRight(mips, src, l), mips[l + 1].height \in Nat,
         NEW to \in Nat, NEW m \in Nat, 2 * to + 2 * m <= mips[l + 1].height,
         NEW t \in to .. to + m - 1
  PROVE  ScaledRow(2 * to, 2 * m, m, t - to) = RowsUnder(l + 1, t)
<1>1. t - to \in 0 .. m - 1 /\ 2 * to \in Nat /\ t \in Nat
  OBVIOUS
<1>2. ScaledRow(2 * to, 2 * m, m, t - to) = src[2 * to + 2 * (t - to)] \cup src[2 * to + (2 * (t - to) + 1)]
  BY <1>1, TwoRows
<1>3. 2 * to + 2 * (t - to) = 2 * t /\ 2 * to + (2 * (t - to) + 1) = 2 * t + 1
  BY <1>1
<1>4. 2 * t \in 0 .. mips[l + 1].height - 1 /\ 2 * t + 1 \in 0 .. mips[l + 1].height - 1
  BY <1>1
<1>5. src[2 * t] = RowsUnder(l, 2 * t) /\ src[2 * t + 1] = RowsUnder(l, 2 * t + 1)
  BY <1>4, Zenon DEF RowsRight
<1>6. l \in 0 .. MaxLevels - 1
  <2>1. Len(mips) \in 1 .. MaxLevels
    BY DEF Fit
  <2> QED
    BY <2>1, SMTT(30) DEF MaxLevels
<1>7. RowsUnder(l, 2 * t) \cup RowsUnder(l, 2 * t + 1) = RowsUnder(l + 1, t)
  BY <1>1, <1>6, RowsJoin
<1> QED
  BY <1>2, <1>3, <1>5, <1>7, Zenon

\* The shares of the workers.
ShareRows(share, h, w) == share + (IF w = Workers - 1 THEN h % Workers ELSE 0)

LEMMA SharesAre ==
  ASSUME NEW g \in Nat, NEW share, share = (2 * g) \div Workers, share % 2 = 0, NEW w \in Threads
  PROVE  /\ ShareRows(share, 2 * g, w) \in Nat /\ share \in Nat
         /\ ShareRows(share, 2 * g, w) = 2 * (ShareRows(share, 2 * g, w) \div 2)
         /\ w * share = 2 * (w * (share \div 2)) /\ w * (share \div 2) \in Nat
         /\ w * share + ShareRows(share, 2 * g, w) <= 2 * g
         /\ w = Workers - 1 => w * (share \div 2) + ShareRows(share, 2 * g, w) \div 2 = g
         /\ w # Workers - 1 => ShareRows(share, 2 * g, w) = share
<1> DEFINE h == 2 * g
           rest == h % Workers
           s == share \div 2
<1>1. Workers \in Nat /\ Workers > 0 /\ w \in Nat /\ w <= Workers - 1
  BY WorkersAssumption DEF Threads
<1>2. share \in Nat /\ rest \in Nat /\ h = Workers * share + rest
  BY <1>1
<1>3. s \in Nat /\ share = 2 * s
  BY <1>2
<1>4. ShareRows(share, h, w) = share + (IF w = Workers - 1 THEN rest ELSE 0)
  BY DEF ShareRows
<1> HIDE DEF rest, s
<1>5. w * share = 2 * (w * s) /\ w * s \in Nat
  BY <1>1, <1>3
<1>6. Workers * share = 2 * (Workers * s) /\ Workers * s \in Nat
  BY <1>1, <1>3
<1>7. (w + 1) * share <= Workers * share /\ (w + 1) * share = w * share + share
  BY <1>1, <1>2
<1>8. \E q \in Nat : rest = 2 * q
  <2>1. rest = 2 * (g - Workers * s)
    BY <1>2, <1>6
  <2>2. g - Workers * s \in Nat
    BY <1>2, <1>6, <2>1
  <2> QED
    BY <2>1, <2>2
<1>9. PICK q \in Nat : rest = 2 * q
  BY <1>8
<1>10. CASE w = Workers - 1
  <2>1. ShareRows(share, h, w) = 2 * (s + q) /\ s + q \in Nat
    BY <1>3, <1>4, <1>9, <1>10
  <2>2. ShareRows(share, h, w) \div 2 = s + q
    BY <2>1
  <2>3. w * share + share = Workers * share /\ w * s + s = Workers * s
    BY <1>1, <1>3, <1>10
  <2>4. w * share + ShareRows(share, h, w) = h /\ w * s + (s + q) = g
    <3> DEFINE ws == w * s
               Ws == Workers * s
               wshare == w * share
               Wshare == Workers * share
    <3>1. /\ wshare = 2 * ws /\ ws \in Nat /\ Wshare = 2 * Ws /\ Ws \in Nat
          /\ 2 * g = Wshare + 2 * q /\ share = 2 * s /\ wshare + share = Wshare /\ ws + s = Ws
      BY <1>2, <1>3, <1>5, <1>6, <1>9, <2>3
    <3> HIDE DEF ws, Ws, wshare, Wshare
    <3>2. wshare + 2 * (s + q) = 2 * g /\ ws + (s + q) = g
      BY <1>3, <3>1
    <3> QED
      BY <2>1, <3>2 DEF ws, wshare
  <2> QED
    BY <1>2, <1>3, <1>5, <1>10, <2>1, <2>2, <2>4 DEF s
<1>11. CASE w # Workers - 1
  <2>1. ShareRows(share, h, w) = share
    BY <1>2, <1>4, <1>11
  <2>2. w * share + share <= h
    BY <1>1, <1>2, <1>5, <1>6, <1>7
  <2> QED
    BY <1>2, <1>3, <1>5, <1>11, <2>1, <2>2 DEF s
<1> QED
  BY <1>10, <1>11

LEMMA QuotientIs ==
  ASSUME NEW a \in Nat, NEW c \in Nat, c > 0
  PROVE  a \div c \in Nat /\ (a \div c) * c <= a /\ a < (a \div c) * c + c
<1>1. a \div c \in Nat /\ a = c * (a \div c) + (a % c) /\ a % c \in Nat /\ a % c < c
  OBVIOUS
<1>2. c * (a \div c) = (a \div c) * c
  BY <1>1
<1> DEFINE m == (a \div c) * c
<1>3. m = c * (a \div c) /\ m \in Nat
  BY <1>1
<1> HIDE DEF m
<1>4. m <= a /\ a < m + c
  BY <1>1, <1>3
<1> QED
  BY <1>1, <1>4 DEF m

\* The shares leave no row out.
LEMMA SharesCover ==
  ASSUME NEW g \in Nat, NEW share, share = (2 * g) \div Workers, share % 2 = 0, share > 4,
         NEW t \in 0 .. g - 1
  PROVE  \E w \in Threads :
           t \in w * (share \div 2) .. w * (share \div 2) + ShareRows(share, 2 * g, w) \div 2 - 1
<1> DEFINE s == share \div 2
           last == Workers - 1
           Rows(w) == ShareRows(share, 2 * g, w) \div 2
<1>1. last \in Threads /\ last \in Nat /\ Threads = 0 .. last /\ Workers \in Nat
  BY WorkersAssumption DEF Threads
<1>2. share \in Nat /\ s \in Nat /\ s > 0 /\ share = 2 * s
  <2>1. share \in Nat
    BY WorkersAssumption
  <2> QED
    BY <2>1
<1>3. t \in Nat /\ t < g
  OBVIOUS
<1>4. CASE t >= last * s
  <2>1. last * s + Rows(last) = g /\ last * s \in Nat /\ Rows(last) \in Nat
    <3>1. last * s + Rows(last) = g /\ last * s \in Nat /\ ShareRows(share, 2 * g, last) \in Nat
      BY <1>1, SharesAre
    <3> QED
      BY <3>1
  <2> DEFINE a == last * s
             n == Rows(last)
  <2>2. a + n = g /\ a \in Nat /\ n \in Nat /\ t >= a
    BY <1>4, <2>1
  <2> HIDE DEF a, n
  <2>3. t \in a .. a + n - 1
    BY <1>3, <2>2
  <2> QED
    BY <1>1, <2>3, Zenon DEF a, n, s, Rows
<1>5. CASE t < last * s
  <2> DEFINE w == t \div s
  <2>1. w \in 0 .. last - 1
    <3> HIDE DEF last, s
    <3> QED
      BY <1>1, <1>2, <1>3, <1>5, RowBelow
  <2>2. w \in Threads /\ w # last
    <3> HIDE DEF last, w
    <3> QED
      BY <1>1, <2>1
  <2>3. w * s <= t /\ t < w * s + s /\ w * s \in Nat
    <3> HIDE DEF s
    <3>1. w \in Nat /\ w * s <= t /\ t < w * s + s
      BY <1>2, <1>3, QuotientIs
    <3> HIDE DEF w
    <3> QED
      BY <1>2, <3>1
  <2> HIDE DEF w
  <2>4. Rows(w) = s
    <3>1. ShareRows(share, 2 * g, w) = share
      BY <2>2, SharesAre
    <3> QED
      BY <3>1
  <2> HIDE DEF last, s, Rows
  <2>5. t \in w * s .. w * s + Rows(w) - 1
    BY <1>2, <1>3, <2>3, <2>4
  <2> QED
    BY <2>2, <2>5 DEF s, Rows
<1> HIDE DEF last, s
<1>6. last * s \in Nat
  BY <1>1, <1>2
<1> QED
  BY <1>3, <1>4, <1>5, <1>6

\* What is known of the level that is scaled and of the next.
LEMMA NextHeight ==
  ASSUME NEW i \in Images, NEW mips, Fit(mips, i), NEW l \in 0 .. Len(mips) - 2, Good(mips, l + 1)
  PROVE  /\ Good(mips, l)
         /\ mips[l + 2].height \in Nat /\ mips[l + 1].height = 2 * mips[l + 2].height
         /\ Share(mips, l) = (2 * mips[l + 2].height) \div Workers
         /\ Share(mips, l) <= 4 \/ Share(mips, l) % 2 = 0
         /\ \A w \in Threads :
              ScaledTo(mips, l, w) =
                IF Share(mips, l) > 4
                  THEN w * (Share(mips, l) \div 2) ..
                         w * (Share(mips, l) \div 2)
                           + ShareRows(Share(mips, l), 2 * mips[l + 2].height, w) \div 2 - 1
                  ELSE 0 .. mips[l + 2].height - 1
<1>1. l \in Nat
  OBVIOUS
<1>2. Good(mips, l) /\ Whole(mips, l + 1) /\ (Share(mips, l) <= 4 \/ Share(mips, l) % 2 = 0)
  BY <1>1, GoodBefore
<1>3. mips[l + 2].height \in Nat /\ mips[l + 1].height = 2 * mips[l + 2].height
  BY <1>2, HalvesAre
<1> QED
  BY <1>2, <1>3, Zenon DEF Share, ScaledTo, ShareRows

LEMMA OpenedFits ==
  ASSUME Opened
  PROVE  image \in Images /\ Fit(levels, image) /\ Len(levels) \in Nat
<1>1. Fit(levels, image)
  BY LevelsFit DEF Opened
<1>2. Len(levels) \in 1 .. MaxLevels
  BY <1>1 DEF Fit
<1> QED
  BY <1>1, <1>2 DEF Opened, MaxLevels

LEMMA ScaleShareKeeps ==
  ASSUME Scaling, NEW w \in Threads, ScaleShare(w)
  PROVE  Scaling'
<1> DEFINE l == level
           share == Share(levels, l)
           h == levels[l + 2].height
           to == w * (share \div 2)
           m == RowsOf(w) \div 2
<1>1. image \in Images /\ Fit(levels, image) /\ l \in 0 .. Len(levels) - 2
  BY OpenedFits DEF Scaling
<1>2. share > 4 /\ scaled' = Scale(w * share, RowsOf(w), to, m) /\ worker' = [worker EXCEPT ![w] = Done]
  BY Zenon DEF ScaleShare, ShareOf, Share
<1>3. UNCHANGED << image, levels, level, dst, blockAtomic, src, staging >>
  BY DEF ScaleShare
<1>4. worker' \in [Threads -> {Asks, Done}] /\ worker \in [Threads -> {Asks, Done}]
  BY <1>2 DEF Scaling
<1>5. DOMAIN scaled = 0 .. h - 1 /\ DOMAIN scaled' = 0 .. h - 1
  BY <1>2 DEF Scaling, Scale
<1>6. ASSUME Good(levels, l + 1), NEW v \in Threads, worker'[v] = Done, NEW r \in ScaledTo(levels, l, v)
      PROVE  scaled'[r] = RowsUnder(l + 1, r)
  <2>1. /\ Good(levels, l) /\ h \in Nat /\ levels[l + 1].height = 2 * h
        /\ share = (2 * h) \div Workers /\ share % 2 = 0
    <3>1. /\ Good(levels, l) /\ h \in Nat /\ levels[l + 1].height = 2 * h
          /\ share = (2 * h) \div Workers /\ (share <= 4 \/ share % 2 = 0)
      BY <1>1, <1>6, NextHeight
    <3> HIDE DEF share, h
    <3>2. share \in Int
      BY <3>1, WorkersAssumption
    <3>3. share % 2 = 0
      BY <1>2, <3>1, <3>2
    <3> QED
      BY <3>1, <3>3
  <2>2. \A u \in Threads :
          ScaledTo(levels, l, u) =
            u * (share \div 2) .. u * (share \div 2) + ShareRows(share, 2 * h, u) \div 2 - 1
    BY <1>1, <1>2, <1>6, NextHeight
  <2>3. RowsRight(levels, src, l)
    BY <2>1 DEF Scaling
  <2>4. RowsOf(w) = ShareRows(share, 2 * h, w)
    <3>1. levels[level + 1].height = 2 * h
      BY <2>1
    <3> QED
      BY <3>1, Zenon DEF RowsOf, ShareOf, Extent, Share, ShareRows
  <2>5. RowsOf(w) = 2 * m /\ m \in Nat /\ w * share = 2 * to /\ to \in Nat /\ 2 * to + 2 * m <= 2 * h
    <3> HIDE DEF share, h
    <3>1. /\ ShareRows(share, 2 * h, w) \in Nat
          /\ ShareRows(share, 2 * h, w) = 2 * (ShareRows(share, 2 * h, w) \div 2)
          /\ w * share = 2 * (w * (share \div 2)) /\ w * (share \div 2) \in Nat
          /\ w * share + ShareRows(share, 2 * h, w) <= 2 * h
      BY <2>1, SharesAre
    <3> QED
      BY <2>4, <3>1
  <2>6. r \in 0 .. h - 1
    <3> HIDE DEF share, h
    <3> DEFINE a == v * (share \div 2)
               n == ShareRows(share, 2 * h, v)
    <3>1. n \in Nat /\ n = 2 * (n \div 2) /\ a \in Nat /\ 2 * a + n <= 2 * h
      BY <2>1, SharesAre
    <3>2. r \in a .. a + n \div 2 - 1
      BY <1>6, <2>2
    <3> HIDE DEF a, n
    <3> QED
      BY <2>1, <3>1, <3>2
  <2> HIDE DEF share, h, to, m
  <2>7. scaled'[r] = IF r \in to .. to + m - 1 THEN ScaledRow(w * share, RowsOf(w), m, r - to) ELSE scaled[r]
    BY <1>2, <1>5, <2>6, Zenon DEF Scale
  <2>8. CASE r \in to .. to + m - 1
    <3>1. ScaledRow(2 * to, 2 * m, m, r - to) = RowsUnder(l + 1, r)
      <4>1. levels[l + 1].height \in Nat /\ 2 * to + 2 * m <= levels[l + 1].height
        BY <2>1, <2>5
      <4> QED
        BY <1>1, <2>3, <2>5, <2>8, <4>1, ScaledRowRight
    <3> QED
      BY <2>5, <2>7, <2>8, <3>1, Zenon
  <2>9. CASE r \notin to .. to + m - 1
    <3>1. v # w
      BY <1>6, <2>2, <2>4, <2>9, Zenon DEF to, m
    <3>2. worker[v] = Done
      BY <1>2, <1>4, <1>6, <3>1
    <3>3. scaled[r] = RowsUnder(l + 1, r)
      BY <1>6, <3>2, Zenon DEF Scaling, ScaledRight
    <3> QED
      BY <2>7, <2>9, <3>3, Zenon
  <2> QED
    BY <2>8, <2>9
<1>7. ScaledRight(levels, l, worker', scaled')
  BY <1>6, Zenon DEF ScaledRight
<1> QED
  BY <1>3, <1>4, <1>5, <1>7 DEF Scaling, Opened

LEMMA ScaleAllKeeps ==
  ASSUME Scaling, ScaleAll
  PROVE  Scaling'
<1> DEFINE l == level
           h == levels[l + 2].height
<1>1. image \in Images /\ Fit(levels, image) /\ l \in 0 .. Len(levels) - 2
  BY OpenedFits DEF Scaling
<1>2. ~(Share(levels, l) > 4) /\ scaled' = Scale(0, levels[l + 1].height, 0, h)
      /\ worker' = [w \in Threads |-> Done]
  <2>1. Share(levels, l) <= 4
    BY DEF ScaleAll, ShareOf, Share
  <2>2. Share(levels, l) \in Int
    <3>1. levels[l + 1].height \in Nat
      <4>1. l \in 0 .. Len(levels) - 1
        BY <1>1, OpenedFits DEF Scaling
      <4> QED
        BY <1>1, <4>1, BlocksAre
    <3> QED
      BY <3>1, WorkersAssumption DEF Share
  <2> QED
    BY <2>1, <2>2 DEF ScaleAll, Extent
<1>3. UNCHANGED << image, levels, level, dst, blockAtomic, src, staging >>
  BY DEF ScaleAll
<1>4. worker' \in [Threads -> {Asks, Done}]
  BY <1>2
<1>5. DOMAIN scaled = 0 .. h - 1 /\ DOMAIN scaled' = 0 .. h - 1
  BY <1>2 DEF Scaling, Scale
<1>6. ASSUME Good(levels, l + 1), NEW v \in Threads, NEW r \in ScaledTo(levels, l, v)
      PROVE  scaled'[r] = RowsUnder(l + 1, r)
  <2>1. Good(levels, l) /\ h \in Nat /\ levels[l + 1].height = 2 * h
    BY <1>1, <1>6, NextHeight
  <2>2. r \in 0 .. h - 1
    BY <1>2, <1>6, Zenon DEF ScaledTo
  <2>3. RowsRight(levels, src, l)
    BY <2>1 DEF Scaling
  <2> HIDE DEF h
  <2>4. 0 \in Nat /\ r \in 0 .. 0 + h - 1 /\ 2 * 0 + 2 * h <= levels[l + 1].height /\ 2 * 0 = 0
        /\ levels[l + 1].height \in Nat
    BY <2>1, <2>2
  <2>5. ScaledRow(2 * 0, 2 * h, h, r - 0) = RowsUnder(l + 1, r)
    BY <1>1, <2>1, <2>3, <2>4, ScaledRowRight
  <2>6. scaled'[r] = ScaledRow(0, levels[l + 1].height, h, r - 0)
    BY <1>2, <1>5, <2>2, <2>4, Zenon DEF Scale
  <2> QED
    BY <2>1, <2>4, <2>5, <2>6, Zenon
<1>7. ScaledRight(levels, l, worker', scaled')
  BY <1>6, Zenon DEF ScaledRight
<1> QED
  BY <1>3, <1>4, <1>5, <1>7 DEF Scaling, Opened

\* A level of which no block was taken yet is under way.
LEMMA NothingTaken ==
  ASSUME NEW count
  PROVE  Held(count, 0, AllAsk) /\ Finished(count, 0, AllAsk) = {}
<1>1. \A w \in Threads : AllAsk[w] = -1
  BY DEF AllAsk, Asks
<1>2. AllAsk \in [Threads -> Nat \cup {Asks, Done}]
  BY DEF AllAsk
<1>3. Held(count, 0, AllAsk)
  BY <1>1, <1>2 DEF Held, Done
<1>4. Finished(count, 0, AllAsk) = {}
  <2>1. \A k \in 0 .. count - 1 : ~(k < 0)
    OBVIOUS
  <2> QED
    BY <2>1 DEF Finished
<1> QED
  BY <1>3, <1>4

LEMMA EndScaleKeeps ==
  ASSUME Scaling, EndScale
  PROVE  Compressing'
<1> DEFINE l == level
           share == Share(levels, l)
           h == levels[l + 2].height
<1>1. image \in Images /\ Fit(levels, image) /\ l \in 0 .. Len(levels) - 2 /\ Len(levels) \in Nat
  BY OpenedFits DEF Scaling
<1>2. level' = l + 1 /\ src' = scaled /\ worker' = AllAsk /\ UNCHANGED << image, levels, dst, blockAtomic, staging >>
  BY DEF EndScale
<1>3. \A w \in Threads : worker[w] = Done
  BY DEF EndScale
<1>4. ASSUME Good(levels, l + 1), NEW r \in 0 .. levels[(l + 1) + 1].height - 1
      PROVE  scaled[r] = RowsUnder(l + 1, r)
  <2>1. h \in Nat /\ share = (2 * h) \div Workers /\ (share <= 4 \/ share % 2 = 0)
    BY <1>1, <1>4, NextHeight
  <2>2. \A w \in Threads :
          ScaledTo(levels, l, w) =
            IF share > 4
              THEN w * (share \div 2) .. w * (share \div 2) + ShareRows(share, 2 * h, w) \div 2 - 1
              ELSE 0 .. h - 1
    BY <1>1, <1>4, NextHeight
  <2>3. r \in 0 .. h - 1
    <3>1. (l + 1) + 1 = l + 2
      BY <1>1
    <3> QED
      BY <1>4, <3>1
  <2> HIDE DEF share, h
  <2>4. \E w \in Threads : r \in ScaledTo(levels, l, w)
    <3>1. CASE share > 4
      <4>1. share % 2 = 0
        <5>1. share \in Int
          BY <2>1, WorkersAssumption
        <5> QED
          BY <2>1, <3>1, <5>1
      <4>2. \E w \in Threads : r \in w * (share \div 2) .. w * (share \div 2) + ShareRows(share, 2 * h, w) \div 2 - 1
        BY <2>1, <2>3, <3>1, <4>1, SharesCover
      <4> QED
        BY <2>2, <3>1, <4>2, Zenon
    <3>2. CASE ~(share > 4)
      <4>1. 0 \in Threads
        BY WorkersAssumption DEF Threads
      <4> QED
        BY <2>2, <2>3, <3>2, <4>1, Zenon
    <3> QED
      BY <3>1, <3>2
  <2> QED
    BY <1>3, <1>4, <2>4, Zenon DEF Scaling, ScaledRight
<1>5. Good(levels, l + 1) => RowsRight(levels, scaled, l + 1)
  BY <1>4, Zenon DEF RowsRight
<1>6. Held(BlockCount', 0, AllAsk) /\ Finished(BlockCount', 0, AllAsk) = {}
  BY NothingTaken
<1>7. blockAtomic' = 0
  BY <1>2 DEF Scaling
<1>8. LevelUnderWay'
  BY <1>2, <1>5, <1>6, <1>7 DEF LevelUnderWay
<1>9. level' \in 0 .. Len(levels') - 1
  BY <1>1, <1>2
<1>10. /\ Opened' /\ DOMAIN staging' = Room(levels') /\ FilledTo(image', levels', staging', level')
       /\ Onward(levels', dst', level')
  BY <1>2 DEF Scaling, Opened
<1>11. Held(BlockCount', blockAtomic', worker')
  BY <1>2, <1>6, <1>7
<1> QED
  BY <1>8, <1>9, <1>10, <1>11 DEF Compressing

LEMMA CompressingFits ==
  ASSUME Compressing
  PROVE  /\ image \in Images /\ Fit(levels, image) /\ Len(levels) \in Nat /\ level \in 0 .. Len(levels) - 1
         /\ BlockCount = Blocks(levels, level) /\ BlockCount \in Nat
<1>1. image \in Images /\ Fit(levels, image) /\ Len(levels) \in Nat /\ level \in 0 .. Len(levels) - 1
  BY OpenedFits DEF Compressing
<1>2. BlockCount = Blocks(levels, level)
  BY DEF BlockCount, BlockCols, Extent, Blocks, Cols
<1> QED
  BY <1>1, <1>2, BlocksAre

LEMMA TakeBlockKeeps ==
  ASSUME Compressing, NEW w \in Threads, TakeBlock(w)
  PROVE  Compressing'
<1> DEFINE count == BlockCount
           c == blockAtomic
<1>1. UNCHANGED << image, levels, level, dst, src, staging, BlockCount >>
  BY DEF TakeBlock, BlockCount, BlockCols, Extent
<1>2. count \in Nat /\ Held(count, c, worker)
  BY CompressingFits DEF Compressing
<1>3. worker[w] = Asks /\ blockAtomic' = c + 1 /\ worker' = [worker EXCEPT ![w] = IF c < count THEN c ELSE Done]
  BY DEF TakeBlock, Fetch
<1> HIDE DEF count, c
<1>4. c \in Nat /\ worker \in [Threads -> Nat \cup {Asks, Done}]
  BY <1>2 DEF Held
<1>5. /\ worker' \in [Threads -> Nat \cup {Asks, Done}]
      /\ worker'[w] = IF c < count THEN c ELSE Done
      /\ \A v \in Threads : v # w => worker'[v] = worker[v]
  BY <1>3, <1>4
<1>6. \A v \in Threads : /\ worker[v] \in Nat \cup {Asks, Done}
                         /\ worker[v] >= 0 => worker[v] < count /\ worker[v] < c
                         /\ worker[v] = Done => count <= c
  BY <1>2 DEF Held
<1>7. \A u, v \in Threads : u # v /\ worker[u] >= 0 => worker[v] # worker[u]
  BY <1>2 DEF Held
<1>8. \A v \in Threads : worker'[v] >= 0 => worker'[v] < count /\ worker'[v] < c + 1
  BY <1>2, <1>4, <1>5, <1>6 DEF Done, Asks
<1>9. \A v \in Threads : worker'[v] = Done => count <= c + 1
  BY <1>2, <1>4, <1>5, <1>6 DEF Done, Asks
<1>10. ASSUME NEW u \in Threads, NEW v \in Threads, u # v, worker'[u] >= 0 PROVE worker'[v] # worker'[u]
  <2>1. CASE u = w
    <3>1. worker'[u] = c /\ worker'[v] = worker[v]
      BY <1>5, <1>10, <2>1 DEF Done
    <3> QED
      BY <1>4, <1>6, <3>1 DEF Done, Asks
  <2>2. CASE v = w
    <3>1. worker'[u] = worker[u] /\ worker[u] < c /\ worker[u] >= 0 /\ worker[u] \in Nat \cup {Asks, Done}
      BY <1>5, <1>6, <1>10, <2>2
    <3> QED
      BY <1>4, <1>5, <2>2, <3>1 DEF Done, Asks
  <2>3. CASE u # w /\ v # w
    BY <1>5, <1>7, <1>10, <2>3
  <2> QED
    BY <2>1, <2>2, <2>3
<1>11. Held(count, c + 1, worker')
  <2>1. c + 1 \in Nat
    BY <1>4
  <2> QED
    BY <1>5, <1>8, <1>9, <1>10, <2>1, Zenon DEF Held
<1>12. ASSUME NEW k \in Finished(count, c + 1, worker') PROVE k \in Finished(count, c, worker)
  <2>1. k \in 0 .. count - 1 /\ k < c + 1 /\ \A v \in Threads : worker'[v] # k
    BY <1>12 DEF Finished
  <2>2. k # c
    BY <1>2, <1>5, <2>1
  <2>3. k < c
    BY <1>4, <2>1, <2>2
  <2>4. ASSUME NEW v \in Threads PROVE worker[v] # k
    BY <1>3, <1>5, <2>1 DEF Asks
  <2> QED
    BY <2>1, <2>3, <2>4 DEF Finished
<1>13. LevelUnderWay'
  <2>1. \A k \in Finished(count, c + 1, worker') : k \in Finished(count, c, worker)
    BY <1>12
  <2>2. LevelUnderWay
    BY DEF Compressing
  <2> QED
    BY <1>1, <1>3, <2>1, <2>2, Zenon DEF LevelUnderWay, count, c
<1>14. Held(BlockCount', blockAtomic', worker')
  BY <1>1, <1>3, <1>11 DEF count
<1> QED
  BY <1>1, <1>13, <1>14 DEF Compressing, Opened

\* Different blocks have nothing in common.
LEMMA PlacesDiffer ==
  ASSUME NEW u \in {1, 2}, NEW o \in Nat, NEW k \in Nat, NEW j \in Nat, k # j, NEW p \in 0 .. u - 1
  PROVE  o + k * u + p \notin o + j * u .. (o + j * u) + u - 1
<1>1. CASE u = 1
  BY <1>1
<1>2. CASE u = 2
  BY <1>2
<1> QED
  BY <1>1, <1>2

LEMMA FirstIs ==
  ASSUME NEW i \in Images, NEW to \in Nat, to % 8 = 0, NEW k \in Nat
  PROVE  /\ (to + k * BlockSize(i)) \div Unit = to \div 8 + k * Units(i)
         /\ BlockSize(i) \div Unit = Units(i)
         /\ to \div 8 \in Nat /\ k * Units(i) \in Nat /\ 8 * (to \div 8) = to
<1>1. Units(i) \in {1, 2} /\ BlockSize(i) = 8 * Units(i)
  BY UnitsAre
<1>2. to \div 8 \in Nat /\ 8 * (to \div 8) = to
  OBVIOUS
<1> DEFINE m == k * Units(i)
           t == to \div 8
<1>3. m \in Nat /\ k * BlockSize(i) = 8 * m
  BY <1>1
<1> HIDE DEF m, t
<1>4. (8 * t + 8 * m) \div 8 = t + m
  BY <1>2, <1>3 DEF t
<1> QED
  BY <1>1, <1>2, <1>3, <1>4 DEF Unit, Units, m, t

\* What writing a block does to the staging buffer.
BlockWritten(s2, s, first, n, block) ==
  /\ DOMAIN s2 = DOMAIN s
  /\ \A u \in DOMAIN s : s2[u] = IF u \in first .. first + n - 1 THEN <<block, u - first>> ELSE s[u]

LEMMA WriteKeepsOthers ==
  ASSUME NEW i \in Images, NEW mips, Fit(mips, i), NEW l \in 0 .. Len(mips) - 1, Whole(mips, l),
         NEW s, NEW s2, DOMAIN s = Room(mips), NEW j \in 0 .. Blocks(mips, l) - 1, NEW block,
         BlockWritten(s2, s, mips[l + 1].offset \div 8 + j * Units(i), Units(i), block),
         NEW k \in 0 .. Blocks(mips, l) - 1, k # j, InPlace(i, mips, s, l, k)
  PROVE  InPlace(i, mips, s2, l, k)
<1> SUFFICES ASSUME NEW p \in 0 .. Units(i) - 1
             PROVE  s2[Place(i, mips, l, k, p)] = Part(mips, l, k, p)
  BY Zenon DEF InPlace
<1> DEFINE o == mips[l + 1].offset \div 8
           n == Units(i)
<1>1. Place(i, mips, l, k, p) \in DOMAIN s
  BY PlaceFits, Zenon
<1>2. o \in Nat
  BY BlocksAre
<1>3. Blocks(mips, l) \in Nat
  BY BlocksAre
<1>4. k \in Nat /\ j \in Nat
  BY <1>3
<1>5. Place(i, mips, l, k, p) = o + k * n + p
  BY Zenon DEF Place, Unit
<1>6. n \in {1, 2}
  BY UnitsAre
<1>7. p \in 0 .. n - 1
  OBVIOUS
<1> HIDE DEF o, n
<1>8. o + k * n + p \notin o + j * n .. (o + j * n) + n - 1
  BY <1>2, <1>4, <1>6, <1>7, PlacesDiffer
<1>9. s2[Place(i, mips, l, k, p)] = s[Place(i, mips, l, k, p)]
  BY <1>1, <1>5, <1>8, Zenon DEF BlockWritten, o, n
<1> QED
  BY <1>9, Zenon DEF InPlace

LEMMA WrittenInPlace ==
  ASSUME NEW i \in Images, NEW mips, Fit(mips, i), NEW l \in 0 .. Len(mips) - 1, Whole(mips, l),
         NEW s, NEW s2, DOMAIN s = Room(mips), NEW j \in 0 .. Blocks(mips, l) - 1, NEW block,
         BlockWritten(s2, s, mips[l + 1].offset \div 8 + j * Units(i), Units(i), block),
         \A p : Part(mips, l, j, p) = <<block, p>>
  PROVE  InPlace(i, mips, s2, l, j)
<1> SUFFICES ASSUME NEW p \in 0 .. Units(i) - 1
             PROVE  s2[Place(i, mips, l, j, p)] = Part(mips, l, j, p)
  BY Zenon DEF InPlace
<1> DEFINE o == mips[l + 1].offset \div 8
           n == Units(i)
           f == o + j * n
<1>1. Place(i, mips, l, j, p) \in DOMAIN s
  BY PlaceFits, Zenon
<1>2. o \in Nat /\ Blocks(mips, l) \in Nat
  BY BlocksAre
<1>3. n \in {1, 2}
  BY UnitsAre
<1>4. Place(i, mips, l, j, p) = f + p
  BY Zenon DEF Place, Unit
<1>5. p \in 0 .. n - 1 /\ j \in Nat
  BY <1>2
<1>6. j * n \in Nat
  BY <1>3, <1>5
<1>7. f \in Nat
  BY <1>2, <1>6
<1> HIDE DEF f, n
<1>8. f + p \in f .. f + n - 1 /\ (f + p) - f = p
  BY <1>3, <1>5, <1>7
<1>9. s2[f + p] = <<block, (f + p) - f>>
  BY <1>1, <1>4, <1>8, Zenon DEF BlockWritten, f, n
<1> QED
  BY <1>4, <1>8, <1>9, Zenon

LEMMA WriteBlockKeeps ==
  ASSUME Compressing, NEW w \in Threads, WriteBlock(w)
  PROVE  Compressing'
<1> DEFINE count == BlockCount
           c == blockAtomic
           j == worker[w]
           first == dst \div 8 + j * Units(image)
<1>1. UNCHANGED << image, levels, level, dst, blockAtomic, src, BlockCount >>
  BY DEF WriteBlock, BlockCount, BlockCols, Extent
<1>2. /\ image \in Images /\ Fit(levels, image) /\ Len(levels) \in Nat /\ level \in 0 .. Len(levels) - 1
      /\ count = Blocks(levels, level) /\ count \in Nat
  BY CompressingFits
<1>3. Held(count, c, worker) /\ Onward(levels, dst, level) /\ DOMAIN staging = Room(levels)
  BY DEF Compressing
<1>4. j >= 0 /\ worker' = [worker EXCEPT ![w] = Asks]
  BY DEF WriteBlock
<1>5. j \in Nat /\ j < count /\ j < c
  BY <1>3, <1>4 DEF Held, Asks, Done
<1>6. dst \in Nat /\ dst % 8 = 0
  BY <1>3 DEF Onward, Unit
<1>7. /\ (dst + j * BlockSize(image)) \div Unit = first /\ BlockSize(image) \div Unit = Units(image)
      /\ dst \div 8 \in Nat /\ j * Units(image) \in Nat /\ 8 * (dst \div 8) = dst
  BY <1>2, <1>5, <1>6, FirstIs
<1>8. BlockWritten(staging', staging, first, Units(image), BlockOf(j))
  <2>1. staging' = [u \in DOMAIN staging |->
                      IF u \in first .. first + Units(image) - 1 THEN <<BlockOf(j), u - first>> ELSE staging[u]]
    BY <1>7, Zenon DEF WriteBlock
  <2> HIDE DEF first
  <2> QED
    BY <2>1, Zenon DEF BlockWritten
<1>9. DOMAIN staging' = Room(levels)
  BY <1>3, <1>8, Zenon DEF BlockWritten
<1>10. \A u \in Room(levels) : 8 * u + 8 <= dst => staging'[u] = staging[u]
  <2> SUFFICES ASSUME NEW u \in Room(levels), 8 * u + 8 <= dst PROVE staging'[u] = staging[u]
    OBVIOUS
  <2>1. u \in Int
    BY DEF Room
  <2>2. first \in Nat /\ u < first
    <3> DEFINE d == dst \div 8
               m == j * Units(image)
    <3>1. d \in Nat /\ m \in Nat /\ 8 * d = dst
      BY <1>7
    <3> HIDE DEF d, m
    <3>2. d + m \in Nat /\ u < d + m
      BY <2>1, <3>1
    <3> QED
      BY <3>2 DEF d, m
  <2> HIDE DEF first
  <2>3. u \notin first .. first + Units(image) - 1
    BY <2>1, <2>2
  <2> QED
    BY <1>3, <1>8, <2>3, Zenon DEF BlockWritten
<1>11. FilledTo(image, levels, staging', level)
  <2>1. \A l \in 0 .. level - 1 : Whole(levels, l) => levels[l + 1].offset + levels[l + 1].size <= dst
    BY <1>3, Zenon DEF Onward
  <2>2. FilledTo(image, levels, staging, level) /\ level \in 0 .. Len(levels)
    BY <1>2 DEF Compressing
  <2> QED
    BY <1>2, <1>6, <1>10, <2>1, <2>2, FilledBelow
<1>12. Held(count, c, worker')
  <2>1. /\ worker' \in [Threads -> Nat \cup {Asks, Done}] /\ worker'[w] = -1
        /\ \A v \in Threads : v # w => worker'[v] = worker[v]
    BY <1>3, <1>4 DEF Held, Asks
  <2>2. /\ c \in Nat
        /\ \A v \in Threads : worker[v] >= 0 => worker[v] < count /\ worker[v] < c
        /\ \A v \in Threads : worker[v] = Done => count <= c
        /\ \A u, v \in Threads : u # v /\ worker[u] >= 0 => worker[v] # worker[u]
    BY <1>3 DEF Held
  <2>3. ~(-1 >= 0) /\ Done # -1
    BY DEF Done
  <2>4. \A v \in Threads : worker'[v] >= 0 => worker'[v] < count /\ worker'[v] < c
    BY <2>1, <2>2, <2>3, Zenon
  <2>5. \A v \in Threads : worker'[v] = Done => count <= c
    BY <2>1, <2>2, <2>3, Zenon
  <2>6. ASSUME NEW u \in Threads, NEW v \in Threads, u # v, worker'[u] >= 0 PROVE worker'[v] # worker'[u]
    <3>1. u # w /\ worker'[u] = worker[u]
      BY <2>1, <2>3, <2>6
    <3>2. CASE v = w
      BY <2>1, <2>3, <2>6, <3>2
    <3>3. CASE v # w
      BY <2>1, <2>2, <2>6, <3>1, <3>3
    <3> QED
      BY <3>2, <3>3
  <2> HIDE DEF count, c
  <2> QED
    BY <2>1, <2>2, <2>4, <2>5, <2>6, Zenon DEF Held
<1>13. ASSUME Good(levels, level), NEW k \in Finished(count, c, worker')
       PROVE  InPlace(image, levels, staging', level, k)
  <2>1. k \in 0 .. count - 1 /\ k < c /\ \A v \in Threads : worker'[v] # k
    BY <1>13 DEF Finished
  <2>2. Whole(levels, level) /\ dst = levels[level + 1].offset
    BY <1>3, <1>13 DEF Good, Onward
  <2>3. BlockWritten(staging', staging, levels[level + 1].offset \div 8 + j * Units(image), Units(image), BlockOf(j))
    BY <1>8, <2>2
  <2>4. k \in 0 .. Blocks(levels, level) - 1 /\ j \in 0 .. Blocks(levels, level) - 1
    BY <1>2, <1>5, <2>1
  <2>5. CASE k = j
    <3>1. RowsRight(levels, src, level)
      BY <1>13 DEF Compressing, LevelUnderWay
    <3>2. Part(levels, level, j, 0)[1] = BlockOf(j)
      <4> DEFINE q == j \div Cols(levels, level)
      <4>1. BlockCols = Cols(levels, level)
        BY Zenon DEF BlockCols, Extent, Cols
      <4>2. \A r \in 0 .. 3 : src[4 * q + r] = RowsUnder(level, 4 * q + r)
        BY <1>2, <2>2, <2>4, <3>1, BlockRows
      <4> HIDE DEF q
      <4>3. [r \in 0 .. 3 |-> src[4 * q + r]] = [r \in 0 .. 3 |-> RowsUnder(level, 4 * q + r)]
        BY <4>2, Zenon
      <4> QED
        BY <4>1, <4>3 DEF Part, BlockOf, q
    <3>3. \A p : Part(levels, level, j, p) = <<BlockOf(j), p>>
      BY <3>2 DEF Part
    <3>4. InPlace(image, levels, staging', level, j)
      BY <1>2, <1>3, <2>2, <2>3, <2>4, <3>3, WrittenInPlace
    <3> QED
      BY <2>5, <3>4
  <2>6. CASE k # j
    <3>1. \A v \in Threads : worker[v] # k
      <4>1. \A v \in Threads : v # w => worker'[v] = worker[v]
        BY <1>4
      <4> QED
        BY <2>1, <2>6, <4>1
    <3>2. k \in Finished(count, c, worker)
      BY <2>1, <3>1, Zenon DEF Finished
    <3>3. InPlace(image, levels, staging, level, k)
      BY <1>13, <3>2, Zenon DEF Compressing, LevelUnderWay
    <3> HIDE DEF j
    <3> QED
      BY <1>2, <1>3, <2>2, <2>3, <2>4, <2>6, <3>3, WriteKeepsOthers
  <2> QED
    BY <2>5, <2>6
<1>14. LevelUnderWay'
  <2>1. Good(levels, level) => RowsRight(levels, src, level)
    BY DEF Compressing, LevelUnderWay
  <2> QED
    BY <1>1, <1>13, <2>1, Zenon DEF LevelUnderWay
<1>15. Held(BlockCount', blockAtomic', worker')
  BY <1>1, <1>12
<1>16. Opened' /\ level' \in 0 .. Len(levels') - 1 /\ DOMAIN staging' = Room(levels')
       /\ FilledTo(image', levels', staging', level') /\ Onward(levels', dst', level')
  BY <1>1, <1>9, <1>11 DEF Compressing, Opened
<1> QED
  BY <1>14, <1>15, <1>16 DEF Compressing

\* What the end of a level leaves.
LEMMA LevelEnds ==
  ASSUME Compressing, \A w \in Threads : worker[w] = Done
  PROVE  /\ FilledTo(image, levels, staging, level + 1)
         /\ level + 2 <= Len(levels) => Onward(levels, dst + BlockCount * BlockSize(image), level + 1)
<1>1. /\ image \in Images /\ Fit(levels, image) /\ Len(levels) \in Nat /\ level \in 0 .. Len(levels) - 1
      /\ BlockCount = Blocks(levels, level) /\ BlockCount \in Nat
  BY CompressingFits
<1>2. FilledTo(image, levels, staging, level + 1)
  <2> SUFFICES ASSUME NEW l \in 0 .. (level + 1) - 1, Good(levels, l)
               PROVE  LevelInPlace(image, levels, staging, l)
    BY Zenon DEF FilledTo
  <2>1. CASE l # level
    <3>1. l \in 0 .. level - 1
      BY <1>1, <2>1
    <3> QED
      BY <3>1, Zenon DEF Compressing, FilledTo
  <2>2. CASE l = level
    <3>1. blockAtomic \in Nat /\ BlockCount <= blockAtomic
      <4>1. 0 \in Threads
        BY WorkersAssumption DEF Threads
      <4> QED
        BY <4>1 DEF Compressing, Held
    <3>2. ASSUME NEW k \in 0 .. BlockCount - 1 PROVE k \in Finished(BlockCount, blockAtomic, worker)
      <4>1. k < blockAtomic /\ k # Done
        BY <1>1, <3>1 DEF Done
      <4> QED
        BY <4>1, Zenon DEF Finished
    <3>3. \A k \in Finished(BlockCount, blockAtomic, worker) : InPlace(image, levels, staging, level, k)
      BY <2>2, Zenon DEF Compressing, LevelUnderWay
    <3> QED
      BY <1>1, <2>2, <3>2, <3>3, Zenon DEF LevelInPlace
  <2> QED
    BY <2>1, <2>2
<1>3. ASSUME level + 2 <= Len(levels) PROVE Onward(levels, dst + BlockCount * BlockSize(image), level + 1)
  <2> DEFINE more == BlockCount * BlockSize(image)
             new == dst + more
  <2>1. dst \in Nat /\ dst % 8 = 0
    BY DEF Compressing, Onward, Unit
  <2>2. more \in Nat /\ more % 8 = 0
    <3>1. BlockSize(image) \in {8, 16}
      BY DEF BlockSize
    <3>2. (BlockCount * 8) % 8 = 0 /\ BlockCount * 8 \in Nat
      BY <1>1
    <3>3. (BlockCount * 16) % 8 = 0 /\ BlockCount * 16 \in Nat
      BY <1>1
    <3> QED
      BY <3>1, <3>2, <3>3
  <2>3. Whole(levels, level) =>
          dst = levels[level + 1].offset /\ levels[level + 1].size = more
    BY <1>1, BlocksAre DEF Compressing, Onward
  <2>4. Follows(levels, level)
    <3>1. level \in 0 .. Len(levels) - 2
      BY <1>1, <1>3
    <3> QED
      BY <1>1, <3>1 DEF Fit
  <2>5. new \in Nat /\ new % 8 = 0
    <3> HIDE DEF more
    <3> QED
      BY <2>1, <2>2, EightsAdd
  <2>6. ASSUME NEW l \in 0 .. (level + 1) - 1, Whole(levels, l)
        PROVE  levels[l + 1].offset + levels[l + 1].size <= new
    <3>1. l \in 0 .. Len(levels) - 1
      BY <1>1
    <3>2. levels[l + 1].offset \in Nat /\ levels[l + 1].size \in Nat
      BY <1>1, <3>1, BlocksAre
    <3>3. CASE l # level
      <4>1. l \in 0 .. level - 1
        BY <1>1, <3>3
      <4>2. levels[l + 1].offset + levels[l + 1].size <= dst
        BY <2>6, <4>1, Zenon DEF Compressing, Onward
      <4> HIDE DEF more
      <4> QED
        BY <2>1, <2>2, <3>2, <4>2
    <3>4. CASE l = level
      <4> HIDE DEF more
      <4> QED
        BY <2>1, <2>2, <2>3, <2>6, <3>2, <3>4
    <3> QED
      BY <3>3, <3>4
  <2>7. ASSUME Whole(levels, level + 1) PROVE new = levels[(level + 1) + 1].offset
    <3>1. Whole(levels, level)
      <4>1. \A n \in 1 .. level + 1 : n \in 1 .. (level + 1) + 1
        BY <1>1
      <4> QED
        BY <2>7, <4>1, Zenon DEF Whole
    <3>2. (level + 1) + 1 = level + 2
      BY <1>1
    <3> HIDE DEF more
    <3> QED
      BY <2>3, <2>4, <3>1, <3>2, Zenon DEF Follows
  <2> HIDE DEF more, new
  <2>8. Onward(levels, new, level + 1)
    BY <2>5, <2>6, <2>7, Zenon DEF Onward, Unit
  <2> QED
    BY <2>8 DEF new, more
<1> QED
  BY <1>2, <1>3

LEMMA EndLevelKeeps ==
  ASSUME Compressing, EndLevel
  PROVE  \/ imagePhase' = "scale" /\ Scaling'
         \/ imagePhase' = "loaded" /\ Resting' /\ DataFilled(image, levels, staging)'
<1>1. /\ image \in Images /\ Fit(levels, image) /\ Len(levels) \in Nat /\ level \in 0 .. Len(levels) - 1
  BY CompressingFits
<1>2. /\ UNCHANGED << image, levels, staging >> /\ worker' = AllAsk /\ blockAtomic' = 0
      /\ \A w \in Threads : worker[w] = Done
  BY DEF EndLevel
<1>3. /\ FilledTo(image, levels, staging, level + 1)
      /\ level + 2 <= Len(levels) => Onward(levels, dst + BlockCount * BlockSize(image), level + 1)
  BY <1>2, LevelEnds
<1>4. Opened /\ Opened'
  BY <1>2 DEF Compressing, Opened
<1>5. CASE level + 1 < Len(levels)
  <2>1. /\ imagePhase' = "scale" /\ dst' = dst + BlockCount * BlockSize(image)
        /\ scaled' = [r \in 0 .. levels[level + 2].height - 1 |-> {}]
        /\ level' = level /\ src' = src
    BY <1>5 DEF EndLevel
  <2>2. level + 2 <= Len(levels) /\ level \in 0 .. Len(levels) - 2
    BY <1>1, <1>5
  <2>3. Good(levels, level) => RowsRight(levels, src, level)
    BY DEF Compressing, LevelUnderWay
  <2>4. \A w \in Threads : AllAsk[w] # Done
    BY DEF AllAsk, Asks, Done
  <2>5. ScaledRight(levels, level, AllAsk, scaled')
    BY <2>4, Zenon DEF ScaledRight
  <2>6. AllAsk \in [Threads -> {Asks, Done}]
    BY DEF AllAsk
  <2>7. DOMAIN staging = Room(levels)
    BY DEF Compressing
  <2>8. DOMAIN scaled' = 0 .. levels[level + 2].height - 1
    BY <2>1
  <2>9. Scaling'
    BY <1>2, <1>3, <1>4, <2>1, <2>2, <2>3, <2>5, <2>6, <2>7, <2>8, Zenon DEF Scaling
  <2> QED
    BY <2>1, <2>9
<1>6. CASE ~(level + 1 < Len(levels))
  <2>1. imagePhase' = "loaded" /\ level' = 0 /\ dst' = 0
    BY <1>6 DEF EndLevel
  <2>2. level + 1 = Len(levels)
    BY <1>1, <1>6
  <2>3. Resting'
    BY <1>2, <2>1 DEF Resting, AllAsk
  <2>4. DataFilled(image, levels, staging)'
    BY <1>2, <1>3, <1>4, <2>2, Zenon DEF DataFilled, Opened
  <2> QED
    BY <2>1, <2>3, <2>4
<1> QED
  BY <1>5, <1>6

LEMMA OpenImageKeeps ==
  ASSUME ImageInv, NEW i \in Images, OpenImage(i)
  PROVE  imagePhase' = "compress" /\ Compressing' /\ imageFile' = NoFile
<1>1. Resting
  BY DEF ImageInv, Phases, OpenImage
<1>2. /\ imagePhase' = "compress" /\ image' = i /\ levels' = MipLevels(i) /\ imageFile' = NoFile
      /\ staging' = [u \in 0 .. TotalSize(levels') \div Unit - 1 |-> << >>]
      /\ src' = [r \in 0 .. i.height - 1 |-> {r}]
      /\ level' = 0 /\ dst' = 0 /\ blockAtomic' = 0 /\ worker' = AllAsk
  BY <1>1 DEF OpenImage, Resting
<1>3. Fit(levels', i)
  BY <1>2, LevelsFit
<1>4. /\ Len(levels') \in Nat /\ Len(levels') > 0 /\ levels'[1].height = i.height /\ levels'[1].offset = 0
  BY <1>3 DEF Fit, MaxLevels
<1>5. DOMAIN staging' = Room(levels')
  BY <1>2 DEF Room
<1>6. FilledTo(image', levels', staging', 0)
  <2>1. \A l \in 0 .. 0 - 1 : FALSE
    OBVIOUS
  <2> QED
    BY <2>1, Zenon DEF FilledTo
<1>7. Onward(levels', 0, 0)
  <2>1. \A l \in 0 .. 0 - 1 : FALSE
    OBVIOUS
  <2>2. 0 \in Nat /\ 0 % Unit = 0 /\ 0 + 1 = 1
    BY DEF Unit
  <2> QED
    BY <1>4, <2>1, <2>2, Zenon DEF Onward
<1>8. RowsRight(levels', src', 0)
  <2> SUFFICES ASSUME NEW r \in 0 .. levels'[0 + 1].height - 1 PROVE src'[r] = RowsUnder(0, r)
    BY Zenon DEF RowsRight
  <2>1. r \in 0 .. i.height - 1
    BY <1>4
  <2>2. src'[r] = {r}
    BY <1>2, <2>1
  <2>3. r \in Nat
    BY <2>1, ImageIs
  <2>4. RowsUnder(0, r) = r * 1 .. (r + 1) * 1 - 1
    BY Powers, Zenon DEF RowsUnder
  <2>5. r * 1 = r /\ (r + 1) * 1 - 1 = r
    BY <2>3
  <2>6. r .. r = {r}
    BY <2>3
  <2> QED
    BY <2>2, <2>4, <2>5, <2>6
<1>9. Held(BlockCount', 0, AllAsk) /\ Finished(BlockCount', 0, AllAsk) = {}
  BY NothingTaken
<1>10. LevelUnderWay'
  BY <1>2, <1>8, <1>9 DEF LevelUnderWay
<1>11. Opened' /\ level' \in 0 .. Len(levels') - 1
  BY <1>2, <1>4 DEF Opened
<1>12. Held(BlockCount', blockAtomic', worker')
  BY <1>2, <1>9
<1>13. Onward(levels', dst', level') /\ FilledTo(image', levels', staging', level')
  BY <1>2, <1>6, <1>7
<1> QED
  BY <1>2, <1>5, <1>10, <1>11, <1>12, <1>13 DEF Compressing

LEMMA SaveImageKeeps ==
  ASSUME DataFilled(image, levels, staging), SaveImage
  PROVE  /\ imagePhase' = "staged" /\ DataFilled(image, levels, staging)'
         /\ DataFilled(image, imageFile.levels, imageFile.data)'
<1> DEFINE data == [u \in 0 .. TotalSize(levels) \div Unit - 1 |-> staging[u]]
<1>1. /\ imagePhase' = "staged" /\ imageFile' = [levels |-> levels, data |-> data]
      /\ UNCHANGED << image, levels, staging >>
  BY DEF SaveImage
<1>2. imageFile'.levels = levels /\ imageFile'.data = data
  BY <1>1
<1>3. \A u \in Room(levels) : data[u] = staging[u]
  BY DEF Room
<1>4. image \in Images /\ levels = MipLevels(image) /\ FilledTo(image, levels, staging, Len(levels))
  BY DEF DataFilled
<1>5. Fit(levels, image)
  BY <1>4, LevelsFit
<1>6. Len(levels) \in 0 .. Len(levels)
  BY <1>5 DEF Fit, MaxLevels
<1> HIDE DEF data
<1>7. FilledTo(image, levels, data, Len(levels))
  BY <1>3, <1>4, <1>5, <1>6, FilledSame
<1> QED
  BY <1>1, <1>2, <1>4, <1>7, Zenon DEF DataFilled

LEMMA LoadImageKeeps ==
  ASSUME DataFilled(image, imageFile.levels, imageFile.data), LoadImageBin
  PROVE  imagePhase' = "staged" /\ DataFilled(image, levels, staging)'
<1> DEFINE mips == imageFile.levels
           data == imageFile.data
<1>1. /\ imagePhase' = "staged" /\ levels' = mips /\ image' = image
      /\ staging' = [u \in 0 .. TotalSize(mips) \div Unit - 1 |-> data[u]]
  BY DEF LoadImageBin
<1>2. \A u \in Room(mips) : staging'[u] = data[u]
  BY <1>1 DEF Room
<1>3. image \in Images /\ mips = MipLevels(image) /\ FilledTo(image, mips, data, Len(mips))
  BY DEF DataFilled
<1> HIDE DEF mips, data
<1>4. Fit(mips, image)
  BY <1>3, LevelsFit
<1>5. Len(mips) \in 0 .. Len(mips)
  BY <1>4 DEF Fit, MaxLevels
<1>6. FilledTo(image, mips, staging', Len(mips))
  BY <1>2, <1>3, <1>4, <1>5, FilledSame
<1> QED
  BY <1>1, <1>3, <1>6, Zenon DEF DataFilled

\* A region takes what is in the places of its level.
LEMMA RegionIs ==
  ASSUME image \in Images, Fit(levels, image), NEW l \in 0 .. Len(levels) - 1, Whole(levels, l)
  PROVE  Region(levels[l + 1]) =
           [k \in 0 .. Blocks(levels, l) - 1 |->
             [p \in 0 .. Units(image) - 1 |-> staging[Place(image, levels, l, k, p)]]]
<1> DEFINE mip == levels[l + 1]
           a == mip.width \div 4
           b == mip.height \div 4
<1>1. mip.width % 4 = 0 /\ mip.height % 4 = 0 /\ mip.width \in Nat /\ mip.height \in Nat
  BY BlocksAre DEF Fit, LevelFits
<1>2. RoundUp(mip.width, 4) \div 4 = a /\ RoundUp(mip.height, 4) \div 4 = b /\ a \in Nat /\ b \in Nat
  <2> HIDE DEF mip
  <2>1. (mip.width + 4 - 1) \div 4 = a /\ a \in Nat
    BY <1>1
  <2>2. (mip.height + 4 - 1) \div 4 = b /\ b \in Nat
    BY <1>1
  <2> HIDE DEF a, b
  <2>3. (a * 4) \div 4 = a /\ (b * 4) \div 4 = b
    BY <2>1, <2>2
  <2> QED
    BY <2>1, <2>2, <2>3, Zenon DEF RoundUp
<1>3. a * b = Blocks(levels, l)
  <2>1. Blocks(levels, l) = b * a
    BY Zenon DEF Blocks, Cols
  <2> HIDE DEF a, b
  <2> QED
    BY <1>2, <2>1
<1> QED
  BY <1>2, <1>3, Zenon DEF Region, Place, Units

LEMMA CopyKeeps ==
  ASSUME DataFilled(image, levels, staging), CopyBufferToImage
  PROVE  imagePhase' = "uploaded" /\ Opened' /\ TextureRight(levels, texture)'
<1>1. /\ imagePhase' = "uploaded" /\ UNCHANGED << image, levels, staging >>
      /\ texture' = [n \in DOMAIN levels |-> Region(levels[n])]
  BY DEF CopyBufferToImage
<1>2. image \in Images /\ levels = MipLevels(image) /\ FilledTo(image, levels, staging, Len(levels))
  BY DEF DataFilled
<1>3. Fit(levels, image)
  BY <1>2, LevelsFit
<1>4. ASSUME NEW l \in 0 .. Len(levels) - 1, Good(levels, l)
      PROVE  /\ DOMAIN texture'[l + 1] = 0 .. Blocks(levels, l) - 1
             /\ \A k \in 0 .. Blocks(levels, l) - 1 : \A p \in DOMAIN texture'[l + 1][k] :
                  texture'[l + 1][k][p] = Part(levels, l, k, p)
  <2>1. texture'[l + 1] = Region(levels[l + 1])
    <3>1. l + 1 \in DOMAIN levels
      BY <1>3 DEF Fit, MaxLevels
    <3> QED
      BY <1>1, <3>1
  <2>2. Whole(levels, l)
    BY <1>4 DEF Good
  <2>3. texture'[l + 1] = [k \in 0 .. Blocks(levels, l) - 1 |->
                            [p \in 0 .. Units(image) - 1 |-> staging[Place(image, levels, l, k, p)]]]
    BY <1>2, <1>3, <2>1, <2>2, RegionIs
  <2>4. ASSUME NEW k \in 0 .. Blocks(levels, l) - 1, NEW p \in DOMAIN texture'[l + 1][k]
        PROVE  texture'[l + 1][k][p] = Part(levels, l, k, p)
    <3> DEFINE blocks == texture'[l + 1]
               parts == [q \in 0 .. Units(image) - 1 |-> staging[Place(image, levels, l, k, q)]]
    <3>0. blocks[k] = parts
      BY <2>3, Zenon
    <3>1. p \in 0 .. Units(image) - 1 /\ texture'[l + 1][k][p] = staging[Place(image, levels, l, k, p)]
      <4>1. p \in DOMAIN parts
        BY <3>0, Zenon
      <4>2. p \in 0 .. Units(image) - 1
        BY <4>1, Zenon
      <4>3. parts[p] = staging[Place(image, levels, l, k, p)]
        BY <4>2, Zenon
      <4> QED
        BY <3>0, <4>2, <4>3, Zenon
    <3> QED
      BY <1>2, <1>4, <3>1, Zenon DEF FilledTo, LevelInPlace, InPlace
  <2> QED
    BY <2>3, <2>4, Zenon
<1>5. TextureRight(levels, texture')
  BY <1>4, Zenon DEF TextureRight
<1> QED
  BY <1>1, <1>2, <1>5 DEF Opened

LEMMA ImageShown == ImageInv => ImageAsRead
<1> SUFFICES ASSUME ImageInv, imagePhase = "uploaded", NEW l \in 0 .. Len(levels) - 1,
                    WholeBlocks(l), EvenShares(l)
             PROVE  LET cols == levels[l + 1].width \div 4
                        blocks == texture[l + 1]
                    IN /\ DOMAIN blocks = 0 .. cols * (levels[l + 1].height \div 4) - 1
                       /\ \A k \in DOMAIN blocks : \A p \in DOMAIN blocks[k] :
                            blocks[k][p] =
                              <<[level |-> l, block |-> k,
                                 rows |-> [r \in 0 .. 3 |-> RowsUnder(l, 4 * (k \div cols) + r)]], p>>
  BY Zenon DEF ImageAsRead
<1>1. Opened /\ TextureRight(levels, texture)
  BY DEF ImageInv
<1>2. image \in Images /\ Fit(levels, image)
  BY <1>1, OpenedFits
<1>3. Good(levels, l)
  <2>1. Whole(levels, l)
    BY Zenon DEF WholeBlocks, Whole
  <2>2. Even(levels, l)
    BY Zenon DEF EvenShares, ShareOf, Even, Share
  <2> QED
    BY <2>1, <2>2 DEF Good
<1>4. /\ DOMAIN texture[l + 1] = 0 .. Blocks(levels, l) - 1
      /\ \A k \in 0 .. Blocks(levels, l) - 1 : \A p \in DOMAIN texture[l + 1][k] :
           texture[l + 1][k][p] = Part(levels, l, k, p)
  BY <1>1, <1>3, Zenon DEF TextureRight
<1>5. Blocks(levels, l) = Cols(levels, l) * (levels[l + 1].height \div 4)
  <2>1. Cols(levels, l) \in Nat /\ levels[l + 1].height \div 4 \in Nat
    BY <1>2, BlocksAre
  <2> QED
    BY <2>1 DEF Blocks
<1> QED
  BY <1>4, <1>5, Zenon DEF Part, Cols

LEMMA InitImage == ImageInit => ImageInv
<1> SUFFICES ASSUME ImageInit PROVE ImageInv
  OBVIOUS
<1>1. imagePhase = "idle" /\ imageFile = NoFile
  BY DEF ImageInit
<1>2. Resting
  BY DEF ImageInit, Resting, AllAsk
<1> QED
  BY <1>1, <1>2 DEF ImageInv, Phases

LEMMA NextImage ==
  ASSUME ImageInv, ImageNext \/ UNCHANGED imageVars
  PROVE  ImageInv'
<1> DEFINE FileKept == imageFile' # NoFile => DataFilled(image, imageFile.levels, imageFile.data)'
<1>1. UNCHANGED << image, imageFile >> => FileKept
  BY DEF ImageInv, DataFilled
<1>2. ASSUME NEW i \in Images, OpenImage(i) PROVE ImageInv'
  BY <1>2, OpenImageKeeps DEF ImageInv, Phases
<1>3. ASSUME NEW w \in Threads, TakeBlock(w) PROVE ImageInv'
  <2>1. imagePhase = "compress" /\ imagePhase' = "compress" /\ UNCHANGED << image, imageFile >>
    BY <1>3 DEF TakeBlock
  <2>2. Compressing'
    BY <1>3, <2>1, TakeBlockKeeps DEF ImageInv
  <2> QED
    BY <1>1, <2>1, <2>2 DEF ImageInv, Phases
<1>4. ASSUME NEW w \in Threads, WriteBlock(w) PROVE ImageInv'
  <2>1. imagePhase = "compress" /\ imagePhase' = "compress" /\ UNCHANGED << image, imageFile >>
    BY <1>4 DEF WriteBlock
  <2>2. Compressing'
    BY <1>4, <2>1, WriteBlockKeeps DEF ImageInv
  <2> QED
    BY <1>1, <2>1, <2>2 DEF ImageInv, Phases
<1>5. ASSUME NEW w \in Threads, ScaleShare(w) PROVE ImageInv'
  <2>1. imagePhase = "scale" /\ imagePhase' = "scale" /\ UNCHANGED << image, imageFile >>
    BY <1>5 DEF ScaleShare
  <2>2. Scaling'
    BY <1>5, <2>1, ScaleShareKeeps DEF ImageInv
  <2> QED
    BY <1>1, <2>1, <2>2 DEF ImageInv, Phases
<1>6. ASSUME EndLevel PROVE ImageInv'
  <2>1. imagePhase = "compress" /\ UNCHANGED << image, imageFile >>
    BY <1>6 DEF EndLevel
  <2>2. \/ imagePhase' = "scale" /\ Scaling'
        \/ imagePhase' = "loaded" /\ Resting' /\ DataFilled(image, levels, staging)'
    BY <1>6, <2>1, EndLevelKeeps DEF ImageInv
  <2> QED
    BY <1>1, <2>1, <2>2 DEF ImageInv, Phases
<1>7. ASSUME ScaleAll PROVE ImageInv'
  <2>1. imagePhase = "scale" /\ imagePhase' = "scale" /\ UNCHANGED << image, imageFile >>
    BY <1>7 DEF ScaleAll
  <2>2. Scaling'
    BY <1>7, <2>1, ScaleAllKeeps DEF ImageInv
  <2> QED
    BY <1>1, <2>1, <2>2 DEF ImageInv, Phases
<1>8. ASSUME EndScale PROVE ImageInv'
  <2>1. imagePhase = "scale" /\ imagePhase' = "compress" /\ UNCHANGED << image, imageFile >>
    BY <1>8 DEF EndScale
  <2>2. Compressing'
    BY <1>8, <2>1, EndScaleKeeps DEF ImageInv
  <2> QED
    BY <1>1, <2>1, <2>2 DEF ImageInv, Phases
<1>9. UNCHANGED << level, dst, blockAtomic, worker >> /\ Resting => Resting'
  BY DEF Resting, AllAsk
<1>10. ASSUME SaveImage PROVE ImageInv'
  <2>1. imagePhase = "loaded" /\ UNCHANGED << level, dst, blockAtomic, worker >>
    BY <1>10 DEF SaveImage
  <2>2. Resting /\ DataFilled(image, levels, staging)
    BY <2>1 DEF ImageInv, Phases
  <2>3. /\ imagePhase' = "staged" /\ DataFilled(image, levels, staging)'
        /\ DataFilled(image, imageFile.levels, imageFile.data)'
    BY <1>10, <2>2, SaveImageKeeps
  <2> QED
    BY <1>9, <2>1, <2>2, <2>3 DEF ImageInv, Phases
<1>11. ASSUME LoadImageBin PROVE ImageInv'
  <2>1. imagePhase = "idle" /\ imageFile # NoFile /\ UNCHANGED << level, dst, blockAtomic, worker, image, imageFile >>
    BY <1>11 DEF LoadImageBin
  <2>2. Resting /\ DataFilled(image, imageFile.levels, imageFile.data)
    BY <2>1 DEF ImageInv, Phases
  <2>3. imagePhase' = "staged" /\ DataFilled(image, levels, staging)'
    BY <1>11, <2>2, LoadImageKeeps
  <2> QED
    BY <1>1, <1>9, <2>1, <2>2, <2>3 DEF ImageInv, Phases
<1>12. ASSUME CopyBufferToImage PROVE ImageInv'
  <2>1. imagePhase = "staged" /\ UNCHANGED << level, dst, blockAtomic, worker, image, imageFile >>
    BY <1>12 DEF CopyBufferToImage
  <2>2. Resting /\ DataFilled(image, levels, staging)
    BY <2>1 DEF ImageInv, Phases
  <2>3. imagePhase' = "uploaded" /\ Opened' /\ TextureRight(levels, texture)'
    BY <1>12, <2>2, CopyKeeps
  <2> QED
    BY <1>1, <1>9, <2>1, <2>2, <2>3 DEF ImageInv, Phases
<1>13. ASSUME ReleaseImage PROVE ImageInv'
  <2>1. /\ imagePhase = "uploaded" /\ imagePhase' = "idle"
        /\ UNCHANGED << level, dst, blockAtomic, worker, image, imageFile >>
    BY <1>13 DEF ReleaseImage
  <2>2. Resting
    BY <2>1 DEF ImageInv, Phases
  <2> QED
    BY <1>1, <1>9, <2>1, <2>2 DEF ImageInv, Phases
<1>14. ASSUME UNCHANGED imageVars PROVE ImageInv'
  <2>1. UNCHANGED << imagePhase, image, levels, level, dst, blockAtomic, worker, src, scaled,
                     staging, imageFile, texture >>
    BY <1>14 DEF imageVars
  <2>2. Compressing => Compressing'
    BY <2>1 DEF Compressing, Opened, LevelUnderWay, BlockCount, BlockCols, Extent
  <2>3. Scaling => Scaling'
    BY <2>1 DEF Scaling, Opened
  <2>4. Resting => Resting'
    BY <2>1 DEF Resting, AllAsk
  <2>5. (DataFilled(image, levels, staging) => DataFilled(image, levels, staging)')
        /\ (Opened /\ TextureRight(levels, texture) => Opened' /\ TextureRight(levels, texture)')
    BY <2>1 DEF Opened, DataFilled, TextureRight
  <2> QED
    BY <1>1, <2>1, <2>2, <2>3, <2>4, <2>5 DEF ImageInv, Phases
<1> HIDE DEF FileKept
<1> QED
  BY <1>2, <1>3, <1>4, <1>5, <1>6, <1>7, <1>8, <1>10, <1>11, <1>12, <1>13, <1>14 DEF ImageNext

------------------------------------------------------------------------------
(***************************************************************************)
(* The whole.                                                              *)
(***************************************************************************)

\* A step of the whole is one of a part or leaves that part alone.
LEMMA StepOfParts ==
  [Next]_vars => /\ SetUp \/ Exit \/ Crash \/ LoseConfig \/ UNCHANGED setupVars
                 /\ ModelNext \/ UNCHANGED modelVars
                 /\ ImageNext \/ UNCHANGED imageVars
                 /\ ViewsNext \/ UNCHANGED viewsVars
BY DEF Next, Use, vars

\* Started any number of times, on any of the machines, with the device.bin that
\* an earlier start wrote, with none, or after a crash, the constructor of RHI
\* ends on every machine it can cope with, and with what is there: rhi.cpp,
\* instance.cpp and device.cpp against the promises of a device.
THEOREM SetupAlwaysFits == Spec => []SetupFits
<1>1. Init => DeviceInv
  BY InitDevice DEF Init
<1>2. DeviceInv /\ [Next]_vars => DeviceInv'
  BY NextDevice, StepOfParts
<1> QED
  BY <1>1, <1>2, DeviceFits, PTL DEF Spec

\* The buffers of a model that is drawn have the corners of its file, imported
\* or read back from the cache: loadOBJ, saveBin and loadBin of model.cpp.
THEOREM MeshAlwaysAsInFile == Spec => []MeshAsInFile
<1>1. Init => MeshInv
  BY InitMesh DEF Init
<1>2. MeshInv /\ [Next]_vars => MeshInv'
  BY NextMesh, StepOfParts
<1> QED
  BY <1>1, <1>2, MeshShown, PTL DEF Spec

\* Once no update waits or is under way, all frames have the poses of the
\* cameras: Window::InternalUpdateViews against InternalUpdateViewBuffer.
THEOREM ViewsShown == Spec => []BuffersShowCameras
<1>1. ShownInv => BuffersShowCameras
  BY DEF ShownInv, Copied, BuffersShowCameras, PosesShown
<1>2. Init => ShownInv
  BY InitShown DEF Init
<1>3. ShownInv /\ [Next]_vars => ShownInv'
  BY NextShown, StepOfParts
<1> QED
  BY <1>1, <1>2, <1>3, PTL DEF Spec

\* The main thread's handlers and Tick share nothing but two queues of events
\* that each tell one thing, and still Tick knows what mouse and keyboard are
\* like, or will once it has emptied the queues: UpdateMouse and UpdateKeyboard
\* of main.c against Client::Tick.
THEOREM InputFollowed == Spec => []InputFollowsEvents
<1>1. InputInv => InputFollowsEvents
  BY DEF InputInv
<1>2. Init => InputInv
  BY InitInput DEF Init
<1>3. InputInv /\ [Next]_vars => InputInv'
  BY NextInput, StepOfParts
<1> QED
  BY <1>1, <1>2, <1>3, PTL DEF Spec

\* Whatever order the workers take and write blocks in, and with any number of
\* workers and images of any size, a texture has every block of a level of whole
\* blocks in its place, made from the rows it covers, when the image was imported
\* as when it was read back from the cache: image.cpp and CopyBufferToImage.
THEOREM ImageAlwaysAsRead == Spec => []ImageAsRead
<1>1. Init => ImageInv
  BY InitImage DEF Init
<1>2. ImageInv /\ [Next]_vars => ImageInv'
  BY NextImage, StepOfParts
<1> QED
  BY <1>1, <1>2, ImageShown, PTL DEF Spec
=============================================================================
