------------------------------ MODULE DeviceSetup ------------------------------
(***************************************************************************)
(* The constructor of RHI in rhi/vulkan: the physical devices the instance *)
(* finds, the one that is chosen, the logical device, the configuration of *)
(* the swapchain and the three queue contexts.                             *)
(*                                                                         *)
(* A machine is the sequence of its physical devices.  Each says its type, *)
(* its queue families, its extensions and what it offers for the surface   *)
(* of the window.  The five extensions the program cannot do without are   *)
(* the one member "required".                                              *)
(*                                                                         *)
(* The program is started again and again: device.bin keeps the index of   *)
(* the device, and by the next start the machine may be another one.       *)
(***************************************************************************)
EXTENDS Integers, Sequences, FiniteSets, SequencesExt

CONSTANTS
  Machines    \* the machines the program may be started on

QueueTypes == {"graphics", "compute", "transfer"}

Optional == {"inline_uniform_block", "push_descriptor", "present_id", "present_wait"}

\* Those whose feature structures are chained whatever the device has.
Unconditional == {"required", "swapchain_maintenance1"}

QueueFamilies == [flags : SUBSET QueueTypes, queues : Nat \ {0}, present : BOOLEAN]

PhysicalDevices ==
  [type       : {"discrete", "integrated", "virtual", "cpu", "other"},
   families   : Seq(QueueFamilies),
   extensions : SUBSET (Optional \cup Unconditional),
   formats    : SUBSET {"bgra8", "rgba8", "bgr8", "rgb8", "other"},
   modes      : SUBSET {"fifo", "fifo_relaxed", "mailbox"},
   minImages  : Nat, maxImages : Nat, extent : Int]

\* Every queue family has queues, every surface fifo, and the upper limit of
\* images, where there is one and it is not zero, is not below the lower.
ASSUME MachinesAssumption ==
  \A m \in Machines :
    /\ m \in Seq(PhysicalDevices)
    /\ \A d \in DOMAIN m : /\ "fifo" \in m[d].modes
                           /\ m[d].maxImages = 0 \/ m[d].minImages <= m[d].maxImages

VARIABLES
  step,       \* where the constructor is
  machine,
  extensions, \* gDeviceExtensions: what SupportsExtension remembers
  features,   \* deviceFeatureParams that each physical device has, by extension
  chosen,     \* the index DetectSuitableGraphicsDevice returned
  used,       \* myPhysicalDeviceIndex
  enabled,    \* the extensions the logical device was created with
  config,     \* what DetectSuitableSwapchain found
  made,       \* the contexts CreateQueues has filled
  context,    \* the one each type of queue stands for in the end
  saved,      \* the index in device.bin, NotChosen without the file
  moved       \* that index was detected on a machine unlike this one (history)

volatile == << extensions, features, chosen, used, enabled, config, made, context >>
kept == << machine, saved, moved >>
setupVars == << step, volatile, kept >>

NotChosen == 0
NoConfig == [extent |-> 0, format |-> "none", mode |-> "none", images |-> 0]
NoContext == [family |-> 0, queues |-> 0, levels |-> 0]

\* An extent the surface leaves to the swapchain is ~0, here Open.
Open == -1
WindowExtent == 1

SetupInit ==
  /\ step = "instance"
  /\ machine \in Machines
  /\ extensions = << >>
  /\ features = << >>
  /\ chosen = NotChosen /\ used = NotChosen
  /\ enabled = {}
  /\ config = NoConfig
  /\ made = [q \in QueueTypes |-> NoContext]
  /\ context = [q \in QueueTypes |-> q]
  /\ saved = NotChosen
  /\ moved = FALSE

Trap == step' = "trapped"

-----------------------------------------------------------------------------
(***************************************************************************)
(* Instance.                                                               *)
(***************************************************************************)

\* The list is made once, for the device that asks first; operator[] gives
\* every other device an empty one.
Remembered(list, d) ==
  IF list # << >> THEN list
  ELSE [i \in DOMAIN machine |-> IF i = d THEN machine[d].extensions ELSE {}]

SupportsExtension(e, d) == e \in extensions'[d]

\* The structures GetPhysicalDeviceInfo2 asks a device to fill.
Chained(d) ==
  Unconditional \cup {e \in Optional \ {"push_descriptor"} : SupportsExtension(e, d)}

\* Those that the device fills with a feature it has.  They stay chained, and
\* vkCreateDevice is given what they say.
Features(d) == Chained(d) \cap machine[d].extensions

EnumeratePhysicalDevices ==
  /\ step = "instance"
  /\ IF machine = << >>
       THEN Trap /\ UNCHANGED << extensions, features >>
       ELSE /\ step' = "detect"
            /\ extensions' = Remembered(extensions, 1)
            /\ features' = [d \in DOMAIN machine |-> Features(d)]
  /\ UNCHANGED << kept, chosen, used, enabled, config, made, context >>

\* What GetPhysicalDeviceSwapchainInfo finds of the surface on a device.
SwapchainInfo(d) ==
  [formats |-> machine[d].formats, modes |-> machine[d].modes,
   minImages |-> machine[d].minImages, maxImages |-> machine[d].maxImages,
   extent |-> machine[d].extent]

-----------------------------------------------------------------------------
(***************************************************************************)
(* DetectSuitableGraphicsDevice and Device.                                *)
(***************************************************************************)

\* Candidates are pairs of a device and a family; only the device is used.
Candidates ==
  {d \in DOMAIN machine :
     \E f \in DOMAIN machine[d].families :
        "graphics" \in machine[d].families[f].flags /\ machine[d].families[f].present}

Priority ==
  [discrete |-> 0, integrated |-> 1, virtual |-> 2, cpu |-> 3, other |-> 4]

\* The sort is not stable: any candidate of the first type may come first.
BestOf(devices) ==
  {d \in devices : \A e \in devices : Priority[machine[d].type] <= Priority[machine[e].type]}

DetectSuitableGraphicsDevice ==
  /\ step = "detect"
  /\ \/ Candidates = {} /\ Trap /\ UNCHANGED chosen
     \/ /\ chosen' \in BestOf(Candidates)
        /\ step' = "device"
  /\ UNCHANGED << kept, extensions, features, used, enabled, config, made, context >>

\* The index detected is what myConfig takes without a device.bin; with one it
\* takes what that says, of whatever devices there were when it was written.
IndexOf(detected) == IF saved = NotChosen THEN detected ELSE saved

\* Every extension is asked for the way GetPhysicalDeviceInfo2 asked.  Past the
\* last device there is none to ask.
CreateDevice ==
  /\ step = "device"
  /\ used' = IndexOf(chosen)
  /\ UNCHANGED extensions
  /\ IF used' \in DOMAIN machine /\ SupportsExtension("required", used')
       THEN /\ step' = "swapchain"
            /\ enabled' = {"required"} \cup {e \in Optional : SupportsExtension(e, used')}
       ELSE Trap /\ UNCHANGED enabled
  /\ UNCHANGED << kept, features, chosen, config, made, context >>

-----------------------------------------------------------------------------
(***************************************************************************)
(* DetectSuitableSwapchain.                                                *)
(***************************************************************************)

RequestSurfaceImageFormat == << "bgra8", "rgba8", "bgr8", "rgb8" >>
RequestPresentMode == << "mailbox", "fifo_relaxed" >>

\* What reading one past the last offered format may give.
Formats == ToSet(RequestSurfaceImageFormat) \cup {"other", "garbage"}

\* The first request that is offered, if there is one.
Offered(requests, offers) ==
  {requests[i] : i \in {j \in DOMAIN requests : /\ requests[j] \in offers
                                              /\ \A k \in 1 .. j - 1 : requests[k] \notin offers}}

\* Without one it is *formats.end().
SurfaceFormats(d) ==
  LET found == Offered(RequestSurfaceImageFormat, SwapchainInfo(d).formats)
  IN IF found = {} THEN Formats ELSE found

PresentModeOf(d) ==
  LET found == Offered(RequestPresentMode, SwapchainInfo(d).modes)
  IN IF found = {} THEN "fifo" ELSE CHOOSE mode \in found : TRUE

ImageCount(d, mode) == IF mode = "mailbox" THEN 3 ELSE SwapchainInfo(d).minImages

\* A surface without an upper limit says zero.
MailboxTraps(d) == PresentModeOf(d) = "mailbox" /\ SwapchainInfo(d).maxImages < 3

DetectSuitableSwapchain ==
  /\ step = "swapchain"
  /\ IF MailboxTraps(used)
       THEN Trap /\ UNCHANGED config
       ELSE /\ step' = "queues"
            /\ \E format \in SurfaceFormats(used) :
                 config' = [extent |-> IF SwapchainInfo(used).extent = Open THEN WindowExtent
                                       ELSE SwapchainInfo(used).extent,
                            format |-> format,
                            mode   |-> PresentModeOf(used),
                            images |-> ImageCount(used, PresentModeOf(used))]
  /\ UNCHANGED << kept, extensions, features, chosen, used, enabled, made, context >>

-----------------------------------------------------------------------------
(***************************************************************************)
(* CreateQueues.                                                           *)
(***************************************************************************)

\* A family serves one type, the first of the three that it can.
TypeOf(family) ==
  IF family.queues = 0 THEN "none"
  ELSE IF "graphics" \in family.flags THEN "graphics"
  ELSE IF "compute" \in family.flags THEN "compute"
  ELSE IF "transfer" \in family.flags THEN "transfer"
  ELSE "none"

\* Of several families of a type the last one stays.
Filled(q) ==
  LET families == machine[used].families
      serving == {f \in DOMAIN families : TypeOf(families[f]) = q}
      last == CHOOSE f \in serving : \A g \in serving : g <= f
  IN IF serving = {} THEN made[q]
     ELSE [family |-> last, queues |-> families[last].queues,
           levels |-> IF q = "graphics" THEN 15 ELSE 1]

\* Compute falls back on graphics, and transfer on what compute became.
Aliased(contexts) ==
  LET compute == IF contexts["compute"].queues = 0 THEN "graphics" ELSE "compute"
  IN [graphics |-> "graphics", compute |-> compute,
      transfer |-> IF contexts["transfer"].queues = 0 THEN compute ELSE "transfer"]

CreateQueues ==
  /\ step = "queues"
  /\ made' = [q \in QueueTypes |-> Filled(q)]
  /\ IF made'["graphics"].queues = 0
       THEN Trap /\ UNCHANGED context
       ELSE step' = "ready" /\ context' = Aliased(made')
  /\ UNCHANGED << kept, extensions, features, chosen, used, enabled, config >>

SetUp ==
  \/ EnumeratePhysicalDevices
  \/ DetectSuitableGraphicsDevice
  \/ CreateDevice
  \/ DetectSuitableSwapchain
  \/ CreateQueues

-----------------------------------------------------------------------------
(***************************************************************************)
(* The end of the program, and the next start.                             *)
(***************************************************************************)

StartAgain(index) ==
  /\ step' = "instance"
  /\ machine' \in Machines
  /\ extensions' = << >>
  /\ features' = << >>
  /\ chosen' = NotChosen /\ used' = NotChosen
  /\ enabled' = {}
  /\ config' = NoConfig
  /\ made' = [q \in QueueTypes |-> NoContext]
  /\ context' = [q \in QueueTypes |-> q]
  /\ saved' = index
  /\ moved' = (index # NotChosen /\ (moved \/ machine' # machine))

\* Mutant of Exit: what is saved is the device that was detected at this start.
SavesDetected == step = "ready" /\ StartAgain(chosen)

\* ~Object saves myConfig.
Exit == step = "ready" /\ StartAgain(used)

\* The program ends without its destructors: device.bin stays as it is.
Crash == step \in {"ready", "trapped"} /\ StartAgain(saved)

\* The file is lost, or cannot be read.
LoseConfig ==
  /\ step = "instance"
  /\ saved' = NotChosen
  /\ moved' = FALSE
  /\ UNCHANGED << step, machine, volatile >>

-----------------------------------------------------------------------------
(***************************************************************************)
(* What the constructor owes the rest of the program.                      *)
(***************************************************************************)

\* The family of the queues a type stands for.
FamilyOf(q) == machine[used].families[made[context[q]].family]

\* A graphics or a compute family can transfer, whether it says so or not; but
\* of several graphics families only one has to compute.
CanDo(family, q) ==
  q \in family.flags \/ (q = "transfer" /\ family.flags # {})

GraphicsCompute(d) ==
  \A f \in DOMAIN d.families : "graphics" \in d.families[f].flags => "compute" \in d.families[f].flags

\* The machines the constructor does not cope with: the extensions of any
\* device but the first are forgotten, a mailbox without an upper limit of
\* images is taken for one that allows none, and where device.bin comes from
\* another machine its index may be that of a device that cannot draw.
Unlucky ==
  /\ used \in DOMAIN machine
  /\ \/ used # 1 \/ "required" \notin machine[used].extensions \/ MailboxTraps(used)
     \/ moved /\ used \notin Candidates

\* At every start the constructor ends, on every machine it can cope with, and
\* what it ends with is there: the index is that of a device there is, although
\* it may come from a start when there were others; and on the machine it was
\* detected on, that of a candidate no better one was passed over for.  There
\* are only extensions the device has and only features that go with them, but
\* for SwapchainMaintenance1, whose extension nobody enables; a present mode it
\* offers, one of its formats where a requested one is among them, a number of
\* images within its limits where it can do with three, and for each type of
\* queue a family that can do its work, compute where every graphics family
\* could do it too.  rhi.cpp:19-284, device.cpp:150-230, instance.cpp:63-99.
SetupFits ==
  /\ step = "trapped" => Candidates = {} \/ Unlucky
  /\ step = "ready" =>
       LET d == machine[used] IN
       /\ used \in DOMAIN machine
       /\ ~ moved => /\ used \in Candidates
                     /\ \A e \in Candidates : Priority[d.type] <= Priority[machine[e].type]
       /\ enabled \subseteq d.extensions
       /\ features[used] \subseteq enabled \cup {"swapchain_maintenance1"}
       /\ config.mode \in d.modes
       /\ d.formats \cap ToSet(RequestSurfaceImageFormat) # {} => config.format \in d.formats
       /\ d.minImages <= 3 => /\ config.images >= d.minImages
                              /\ d.maxImages = 0 \/ config.images <= d.maxImages
       /\ config.extent # Open
       /\ \A q \in QueueTypes : (q = "compute" => GraphicsCompute(d)) => CanDo(FamilyOf(q), q)
       /\ \A p, q \in QueueTypes :
            context[p] # context[q] => made[context[p]].family # made[context[q]].family
=============================================================================
