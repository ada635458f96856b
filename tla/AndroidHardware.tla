-------------------------- MODULE AndroidHardware --------------------------
(***************************************************************************)
(* hw_get_cpu_info and hw_get_gpu_info of android/hardware.c.  The clock   *)
(* is the highest of the cpufreq policies; the GPU's name comes from the   *)
(* system's Vulkan loader, which is opened at run time, or else from a     *)
(* property.  Devices may come and go between the two calls that list them.*)
(***************************************************************************)
EXTENDS Program, FileReaders, SequencesExt, FiniteSetsExt

CONSTANTS
  Phones,      (* records [soc, board, cores, policies, cpu0]: policies holds  *)
               (* the entries of the cpufreq directory, if it opens, as a set  *)
               (* of [policy, files]; files and cpu0 are sequences of files,   *)
               (* in the order they are asked                                  *)
  VkDevices,   (* the lists of devices there may be, sequences of names        *)
  VkMax,       (* VK_MAX_PHYSICAL_DEVICES: 8                                   *)
  GpuDrivers,  (* records [vulkan, egl]: the properties                        *)
  VendorNames  (* vendors: a function from drivers to names                    *)

ASSUME VkAssumption == VkMax \in Nat \ {0}

\* A file holds one number at most.
NumberFiles(files) ==
  files \in Seq(SUBSET Int) /\ \A j \in DOMAIN files : \A m, n \in files[j] : m = n

ASSUME PhoneAssumption ==
  \A p \in Phones : /\ NumberFiles(p.cpu0)
                    /\ \A d \in UNION p.policies : d.policy \in BOOLEAN /\ NumberFiles(d.files)

NoDevice == "null"
NoName   == ""

\* A device that is listed is there.
ASSUME DeviceAssumption ==
  \A ds \in VkDevices : ds \in Seq(STRING) /\ NoDevice \notin Range(ds)

VARIABLES
  phone,
  dirs,        (* the entries of the cpufreq directory not yet returned        *)
  maxFreq,     (* max_freq_khz                                                 *)
  vkCount,     (* device_count                                                 *)
  vkDevices,   (* the array devices                                            *)
  gpuName

phoneVars == <<phone, dirs, maxFreq, vkCount, vkDevices, gpuName>>

NoPhone == <<>>
NoVk    == [j \in 1 .. VkMax |-> NoDevice]

PhoneInit ==
  /\ phone = NoPhone /\ dirs = {} /\ maxFreq = 0
  /\ vkCount = 0 /\ vkDevices = NoVk /\ gpuName = NoName

PhoneReturn ==
  /\ Goto("returned")
  /\ phone' = NoPhone /\ dirs' = {} /\ maxFreq' = 0
  /\ vkCount' = 0 /\ vkDevices' = NoVk /\ gpuName' = NoName
-----------------------------------------------------------------------------
(* The processor                                                           *)

AndroidCpu ==
  /\ pc = "cpu" /\ os = "android"
  /\ \E p \in Phones :
       /\ phone' = p
       /\ dirs' = UNION p.policies
       /\ IF p.policies = {} THEN Goto("policy_cpu0") /\ UNCHANGED held
                             ELSE Goto("policy_next") /\ Acquire({"cpufreq_dir"})
  /\ UNCHANGED <<page, maxFreq, vkCount, vkDevices, gpuName>>

\* hw_read_policy_max_freq: the first of the files with a number above 0.
PolicyMaxFreq(files) ==
  LET good == {j \in DOMAIN files : ReadUint32(files[j]) \ {0} # {}}
  IN  IF good = {} THEN 0 ELSE ReadOr(ReadUint32(files[Min(good)]), 0)

NextPolicy ==
  /\ pc = "policy_next"
  /\ \E d \in dirs :
       /\ dirs' = dirs \ {d}
       /\ maxFreq' = IF d.policy THEN Max({maxFreq, PolicyMaxFreq(d.files)}) ELSE maxFreq
  /\ UNCHANGED <<os, given, unit, pc, held, page, phone, vkCount, vkDevices, gpuName>>

EndOfPolicies ==
  /\ pc = "policy_next" /\ dirs = {}
  /\ Release({"cpufreq_dir"})
  /\ Goto("policy_cpu0")
  /\ UNCHANGED <<page, phoneVars>>

CpuZero ==
  /\ pc = "policy_cpu0"
  /\ maxFreq' = IF maxFreq = 0 THEN PolicyMaxFreq(phone.cpu0) ELSE maxFreq
  /\ Goto("phone_cpu")
  /\ UNCHANGED <<held, page, phone, dirs, vkCount, vkDevices, gpuName>>

PrintPhoneCpu ==
  /\ pc = "phone_cpu"
  /\ PrintLine("CPU", [model |-> ReadOr(phone.soc, ReadOr(phone.board, "Unknown")),
                       cores |-> ReadOr(phone.cores, 0), khz |-> maxFreq])
  /\ Goto("phone_shown")
  /\ UNCHANGED <<held, phoneVars>>
-----------------------------------------------------------------------------
(* The GPU                                                                 *)

\* hw_open_system_vulkan: one of the two libraries opens, or none.
OpenVulkan ==
  /\ pc = "gpu" /\ os = "android"
  /\ \/ Acquire({"vulkan"}) /\ Goto("vk_symbols")
     \/ Goto("gpu_property") /\ UNCHANGED held
  /\ UNCHANGED <<page, phoneVars>>

\* All four symbols are there, or the library is closed.
VulkanSymbols ==
  /\ pc = "vk_symbols"
  /\ Goto("vk_create") \/ Goto("vk_destroy")
  /\ UNCHANGED <<held, page, phoneVars>>

CreateInstance ==
  /\ pc = "vk_create"
  /\ \/ Acquire({"vk_instance"}) /\ Goto("vk_count")
     \/ Goto("vk_destroy") /\ UNCHANGED held
  /\ UNCHANGED <<page, phoneVars>>

\* Variant: the size of the array is forgotten.
CountDevicesUncut ==
  /\ pc = "vk_count"
  /\ \E ds \in VkDevices : vkCount' = Len(ds)
  /\ Goto(IF vkCount' = 0 THEN "vk_destroy" ELSE "vk_list")
  /\ UNCHANGED <<held, page, phone, dirs, maxFreq, vkDevices, gpuName>>

\* How many devices there are is asked for, and cut at the size of the array.
CountDevices ==
  /\ pc = "vk_count"
  /\ \/ /\ \E ds \in VkDevices :
             /\ vkCount' = Min({Len(ds), VkMax})
             /\ Goto(IF ds = <<>> THEN "vk_destroy" ELSE "vk_list")
     \/ Goto("vk_destroy") /\ UNCHANGED vkCount
  /\ UNCHANGED <<held, page, phone, dirs, maxFreq, vkDevices, gpuName>>

\* As many devices as there are by now, and no more than were asked for, are
\* written to the array.
Listing(ds) ==
  /\ vkCount' = Min({Len(ds), vkCount})
  /\ vkDevices' = [j \in 1 .. VkMax |-> IF j <= vkCount' THEN ds[j] ELSE NoDevice]

\* Variant: the count of the first call is relied upon.
ListDevicesAtOnce ==
  /\ pc = "vk_list"
  /\ \/ (\E ds \in VkDevices : Listing(ds)) /\ Goto("vk_name")
     \/ Goto("vk_destroy") /\ UNCHANGED <<vkCount, vkDevices>>
  /\ UNCHANGED <<held, page, phone, dirs, maxFreq, gpuName>>

ListDevices ==
  /\ pc = "vk_list"
  /\ \/ /\ \E ds \in VkDevices : Listing(ds)
        /\ Goto(IF vkCount' = 0 THEN "vk_destroy" ELSE "vk_name")
     \/ Goto("vk_destroy") /\ UNCHANGED <<vkCount, vkDevices>>
  /\ UNCHANGED <<held, page, phone, dirs, maxFreq, gpuName>>

NameDevice ==
  /\ pc = "vk_name"
  /\ gpuName' = vkDevices[1]
  /\ Goto("vk_destroy")
  /\ UNCHANGED <<held, page, phone, dirs, maxFreq, vkCount, vkDevices>>

DestroyInstance ==
  /\ pc = "vk_destroy"
  /\ Release({h \in {"vk_instance"} : Holds(h)})
  /\ Goto("vk_close")
  /\ UNCHANGED <<page, phoneVars>>

CloseVulkan ==
  /\ pc = "vk_close"
  /\ Release({"vulkan"})
  /\ Goto(IF gpuName = NoName THEN "gpu_property" ELSE "phone_gpu")
  /\ UNCHANGED <<page, phoneVars>>

\* hw_read_gpu_property: a driver that is not in the table has no name.
DriverOf(d) == IF d.vulkan # {} THEN d.vulkan ELSE d.egl

GpuProperty ==
  /\ pc = "gpu_property"
  /\ \E d \in GpuDrivers :
       gpuName' = ReadOr({VendorNames[v] : v \in DriverOf(d) \cap DOMAIN VendorNames}, NoName)
  /\ Goto("phone_gpu")
  /\ UNCHANGED <<held, page, phone, dirs, maxFreq, vkCount, vkDevices>>

PrintPhoneGpu ==
  /\ pc = "phone_gpu"
  /\ IF gpuName # NoName THEN PrintLine("GPU", gpuName) ELSE UNCHANGED page
  /\ Goto("phone_shown")
  /\ UNCHANGED <<held, phoneVars>>

LeavePhone ==
  /\ pc = "phone_shown"
  /\ PhoneReturn
  /\ UNCHANGED <<held, page>>

Phone ==
  \/ AndroidCpu \/ NextPolicy \/ EndOfPolicies \/ CpuZero \/ PrintPhoneCpu
  \/ OpenVulkan \/ VulkanSymbols \/ CreateInstance \/ CountDevices
  \/ ListDevices \/ NameDevice \/ DestroyInstance \/ CloseVulkan
  \/ GpuProperty \/ PrintPhoneGpu \/ LeavePhone
-----------------------------------------------------------------------------
\* The variables are well formed; the array is not overrun.
PhoneTypeOK ==
  /\ maxFreq \in 0 .. Uint32Max
  /\ vkCount \in 0 .. VkMax /\ DOMAIN vkDevices = 1 .. VkMax
  /\ pc = "returned" => maxFreq = 0 /\ vkDevices = NoVk /\ gpuName = NoName

\* The first clock above 0 that the files tell.
TellsFirst(files, n) == \E j \in DOMAIN files :
  /\ n \in files[j] /\ n \in 1 .. Uint32Max
  /\ \A k \in 1 .. j - 1 : files[k] \cap (1 .. Uint32Max) = {}

\* The clock is the highest of those the policies tell, or else the one of CPU 0.
\* No properties are asked of a device that is not there, whatever came or went
\* between the two listings, and the name shown is that of a device that was
\* listed, or of a vendor (hw_get_cpu_freq, hw_read_vulkan_renderer).
PhoneIsTrue ==
  /\ pc = "phone_cpu" =>
       LET told  == {n \in 1 .. Uint32Max : \E d \in UNION phone.policies :
                                           d.policy /\ TellsFirst(d.files, n)}
           other == {n \in 1 .. Uint32Max : TellsFirst(phone.cpu0, n)}
       IN  maxFreq = Max({0} \cup (IF told = {} THEN other ELSE told))
  /\ pc = "vk_name" => vkDevices[1] # NoDevice
  /\ pc = "phone_gpu" /\ gpuName # NoName =>
       gpuName \in Range(vkDevices) \cup Range(VendorNames)
=============================================================================
