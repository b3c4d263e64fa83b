------------------------------- MODULE UsbHcdc -------------------------------
(***************************************************************************)
(* Apps/usb_hcdc/usb_hcdc.c: the USB thread of a build with USB_MODE 0,    *)
(* where the board is the host of a serial device.  The driver calls       *)
(* usb_rtos_callback, which queues a pointer to the event; the task takes  *)
(* it from the queue and starts the next transfer:                         *)
(*                                                                         *)
(*   configured -> set line coding -> set control line state               *)
(*     -> get line coding -> write -> read -> write -> ...                 *)
(*                                                                         *)
(* A BKPT stops the firmware; with a debugger it may be resumed.           *)
(***************************************************************************)
EXTENDS Integers, Sequences

CONSTANTS QueueLen,   \* length of g_hcdc_queue
          NumRecords, \* event records the driver uses in turn
          MaxEvents   \* bound: events

VARIABLES
  module,      \* the USB module: "closed" or "open"
  device,      \* the driver's view of the device: "absent" or "configured"
  transfers,   \* the transfers in progress
  records,     \* the driver's event records
  events,      \* number of events so far
  queue,       \* g_hcdc_queue: indices of event records
  g_err_flag,
  g_snd_buf,   \* its first byte
  event_info,  \* index of an event record
  pc,          \* where usb_hcdc_task is
  resume,      \* where it goes on when it is resumed behind a BKPT
  failed       \* history: a call of the driver or of the queue has failed

driver == <<device, records, events>>
vars == <<module, device, transfers, records, events, queue, g_err_flag,
          g_snd_buf, event_info, pc, resume, failed>>

Requests == {"set line coding", "set control line state", "get line coding"}

Init ==
  /\ module = "closed" /\ device = "absent" /\ transfers = {}
  /\ records = [r \in 0 .. NumRecords - 1 |-> [event |-> "none"]]
  /\ events = 0 /\ queue = << >> /\ g_err_flag = FALSE
  /\ g_snd_buf = "1" /\ event_info = 0
  /\ pc = "open" /\ resume = "check" /\ failed = FALSE

-----------------------------------------------------------------------------
(* The driver (FSP), as the code uses it: it fills a record, then calls    *)
(* back.  The task does not run meanwhile.                                 *)

(* usb_rtos_callback.                                                      *)
usb_rtos_callback(r) ==
  IF Len(queue) < QueueLen
  THEN /\ queue' = Append(queue, r)
       /\ UNCHANGED <<g_err_flag, failed>>
  ELSE /\ g_err_flag' = TRUE /\ failed' = TRUE
       /\ UNCHANGED queue

Event(record) ==
  /\ events < MaxEvents /\ pc # "trap"
  /\ events' = events + 1
  /\ records' = [records EXCEPT ![events % NumRecords] = record]
  /\ usb_rtos_callback(events % NumRecords)
  /\ UNCHANGED <<module, g_snd_buf, event_info, pc, resume>>

Configured == /\ module = "open" /\ device = "absent"
              /\ device' = "configured"
              /\ Event([event |-> "configured"])
              /\ UNCHANGED transfers

(* Every event of which the task's switch knows nothing.                   *)
Detached == /\ module = "open" /\ device = "configured"
            /\ device' = "absent" /\ transfers' = {}
            /\ Event([event |-> "detach"])

Completed ==
  \E t \in transfers :
    /\ transfers' = transfers \ {t}
    /\ \/ /\ t \in Requests
          /\ Event([event |-> "request complete", request |-> t])
       \/ /\ t = "write"
          /\ Event([event |-> "write complete"])
       \/ /\ t = "read"
          /\ \E type \in {"HCDC", "HCDCC"}, size \in {0, 1} :
               Event([event |-> "read complete", type |-> type,
                      data_size |-> size])
    /\ UNCHANGED device

-----------------------------------------------------------------------------
(* The task.                                                               *)

(* handle_error: close the module, then the BKPT.                          *)
handle_error(next) == /\ module' = "closed" /\ transfers' = {}
                      /\ pc' = "trap" /\ resume' = next

(* One of R_USB_Read, R_USB_Write and R_USB_HostControlTransfer, and the   *)
(* test of what it returns.                                                *)
Transfer(t) ==
  IF module = "open" /\ device = "configured" /\ t \notin transfers
  THEN /\ transfers' = transfers \cup {t} /\ pc' = "check"
       /\ UNCHANGED <<module, resume, failed>>
  ELSE handle_error("check") /\ failed' = TRUE

(* R_USB_Open; an error is only printed.                                   *)
Open == /\ pc = "open"
        /\ \/ module' = "open" /\ UNCHANGED failed
           \/ failed' = TRUE /\ UNCHANGED module
        /\ pc' = "check"
        /\ UNCHANGED <<driver, transfers, queue, g_err_flag, g_snd_buf,
                       event_info, resume>>

CheckFlag == /\ pc = "check"
             /\ IF g_err_flag THEN handle_error("receive")
                ELSE pc' = "receive" /\ UNCHANGED <<module, transfers, resume>>
             /\ UNCHANGED <<driver, queue, g_err_flag, g_snd_buf, event_info,
                            failed>>

pdTRUE == 1
FSP_SUCCESS == 0

(* xQueueReceive with portMAX_DELAY returns pdTRUE, or waits.              *)
Receive ==
  /\ pc = "receive" /\ queue # << >>
  /\ event_info' = Head(queue) /\ queue' = Tail(queue)
  /\ IF pdTRUE # FSP_SUCCESS THEN handle_error("switch")
     ELSE pc' = "switch" /\ UNCHANGED <<module, transfers, resume>>
  /\ UNCHANGED <<driver, g_err_flag, g_snd_buf, failed>>

(* usb_data_process.                                                       *)
usb_data_process(info) ==
  IF info.type = "HCDC" /\ info.data_size > 0
  THEN /\ g_snd_buf' = CASE g_snd_buf = "1" -> "2"
                         [] g_snd_buf = "2" -> "CR"
                         [] g_snd_buf = "CR" -> "1"
       /\ Transfer("write")
  ELSE Transfer("read") /\ UNCHANGED g_snd_buf

(* The switch on the event, which is read from the driver's record.        *)
HandleEvent ==
  LET info == records[event_info]
      Start(t) == Transfer(t) /\ UNCHANGED g_snd_buf
  IN /\ pc = "switch"
     /\ CASE info.event = "configured" -> Start("set line coding")
          [] info.event = "read complete" -> usb_data_process(info)
          [] info.event = "write complete" -> Start("read")
          [] info.event = "request complete" ->
               (CASE info.request = "set line coding" ->
                       Start("set control line state")
                  [] info.request = "set control line state" ->
                       Start("get line coding")
                  [] info.request = "get line coding" -> Start("write"))
          [] OTHER -> /\ pc' = "check"
                      /\ UNCHANGED <<module, transfers, resume, failed,
                                     g_snd_buf>>
     /\ UNCHANGED <<driver, queue, g_err_flag, event_info>>

(* The debugger resumes.                                                   *)
Resume == /\ pc = "trap"
          /\ pc' = resume
          /\ UNCHANGED <<module, driver, transfers, queue, g_err_flag,
                         g_snd_buf, event_info, resume, failed>>

Next == \/ Configured \/ Detached \/ Completed
        \/ Open \/ CheckFlag \/ Receive \/ HandleEvent \/ Resume

Spec == Init /\ [][Next]_vars

-----------------------------------------------------------------------------
(* "Error in receiving USB event message through queue" (usb_hcdc.c:53),   *)
(* "Error in sending usb event through queue" (:47), "API Failed" (:73):   *)
(* the task closes the module when something has failed, and only then.    *)
ClosedOnlyOnFailure == pc = "trap" => failed
=============================================================================
