------------------------------- MODULE Image -------------------------------
(***************************************************************************)
(* katla::Image, used through the C and Dart interfaces: pixel buffers     *)
(* that are shared by images and by rectangles of images and counted.      *)
(*                                                                         *)
(* Each image is used by one thread, but dart_write_image() gives a copy   *)
(* to the dispatcher, so that two threads count on one buffer.  The count  *)
(* is atomic; a thread that has counted down to 0 deletes the buffer in a  *)
(* step of its own.  What the pixels are is left out.                      *)
(***************************************************************************)
EXTENDS Integers, FiniteSets

CONSTANTS
    Images,      \* the objects of class Image
    ImageSizes,  \* the sizes <<width, height>> that are asked for
    Formats,     \* the <<channels, depth>> that are asked for
    Paddings,    \* the bytes a given step adds to a line
    Rois,        \* the rectangles <<left, top, right, bottom>> asked for
    MaxBuffers   \* bound: how many buffers are allocated

ASSUME ImageAssumption ==
    /\ MaxBuffers \in Nat /\ IsFiniteSet(Images)
    /\ ImageSizes \subseteq Nat \X Nat
    /\ Paddings \subseteq Nat
    /\ Rois \subseteq Nat \X Nat \X Nat \X Nat

Buffers == 1 .. MaxBuffers
NoBuffer == 0           \* m_buffer, m_pixels or m_ref == nullptr
ForeignPixels == -1     \* memory that belongs to the caller
ImageThreads == {"user", "dispatcher"}

(* Image::ImageType, its tables and typeFromArgs() *)
TypeTable ==
    [TYPE_8U_C1  |-> [channels |-> 1, depth |-> 8,  bytes |-> 1],
     TYPE_8U_C3  |-> [channels |-> 3, depth |-> 8,  bytes |-> 3],
     TYPE_8U_C4  |-> [channels |-> 4, depth |-> 8,  bytes |-> 4],
     TYPE_16S_C1 |-> [channels |-> 1, depth |-> 16, bytes |-> 2],
     TYPE_16S_C3 |-> [channels |-> 3, depth |-> 16, bytes |-> 6],
     TYPE_16S_C4 |-> [channels |-> 4, depth |-> 16, bytes |-> 8]]

Channels(type) == TypeTable[type].channels

BytesPerPixel(type) == TypeTable[type].bytes

TypesFromArgs(channels, depth) ==
    {type \in DOMAIN TypeTable :
        TypeTable[type].channels = channels /\ TypeTable[type].depth = depth}

VARIABLES
    image,     \* the members of each image, or NoImage
    user,      \* the thread each image belongs to
    origin,    \* history: where each image begins in its memory, <<x, y>>
    allocated, \* number of buffers allocated
    bytes,     \* how many bytes each buffer has
    refs,      \* the counter m_ref points to, one for each buffer
    deletes,   \* how often each buffer was deleted
    deleting,  \* the buffer each thread has counted to 0, or NoBuffer
    selfCopied \* history: buffers of an image that was assigned to itself

imageVars == <<image, user, origin, allocated, bytes, refs, deletes, deleting, selfCopied>>

NoImage == [none |-> TRUE]

Members(buffer, memory, offset, size, type, stride) ==
    [m_buffer |-> buffer, m_ref |-> buffer, memory |-> memory, offset |-> offset,
     m_size |-> size, m_type |-> type, m_lineStride |-> stride]

EmptyImage == Members(NoBuffer, NoBuffer, 0, <<0, 0>>, "TYPE_INVALID", 0)

ImageInit ==
    /\ image = [i \in Images |-> NoImage]
    /\ user = [i \in Images |-> "user"]
    /\ origin = [i \in Images |-> <<0, 0>>]
    /\ allocated = 0
    /\ bytes = [b \in Buffers |-> 0]
    /\ refs = [b \in Buffers |-> 0]
    /\ deletes = [b \in Buffers |-> 0]
    /\ deleting = [t \in ImageThreads |-> NoBuffer]
    /\ selfCopied = {}

Constructed(i) == image[i] # NoImage
TotalSize(m) == m.m_size[2] * m.m_lineStride

(* toNonOwningMat(): where the pixels that OpenCV is given end in memory. *)
EndOfMat(m) ==
    m.offset + (m.m_size[2] - 1) * m.m_lineStride + m.m_size[1] * BytesPerPixel(m.m_type)

(* The thread is not about to delete a buffer. *)
MayCall(t) == deleting[t] = NoBuffer

(* The counters after one owner went from b and one came to c, in this     *)
(* order; either may be NoBuffer.                                          *)
Counted(b, c) ==
    [x \in Buffers |-> refs[x] - (IF x = b THEN 1 ELSE 0) + (IF x = c THEN 1 ELSE 0)]

(* Image i is constructed by the user with the members m. *)
Constructs(i, m, from) ==
    /\ ~Constructed(i)
    /\ MayCall("user")
    /\ image' = [image EXCEPT ![i] = m]
    /\ origin' = [origin EXCEPT ![i] = from]

(* A buffer of its own, counted once. *)
Allocates(i, size, type, stride) ==
    /\ allocated < MaxBuffers
    /\ allocated' = allocated + 1
    /\ bytes' = [bytes EXCEPT ![allocated'] = size[2] * stride]
    /\ refs' = [refs EXCEPT ![allocated'] = 1]
    /\ Constructs(i, Members(allocated', allocated', 0, size, type, stride), <<0, 0>>)
    /\ user' = [user EXCEPT ![i] = "user"]
    /\ UNCHANGED <<deletes, deleting, selfCopied>>

-----------------------------------------------------------------------------
(* Construction *)

ConstructEmpty(i) ==
    /\ Constructs(i, EmptyImage, <<0, 0>>)
    /\ user' = [user EXCEPT ![i] = "user"]
    /\ UNCHANGED <<allocated, bytes, refs, deletes, deleting, selfCopied>>

(* create_image(); channels() ends the program for arguments without type. *)
CreateImage(i, size, format) ==
    \E type \in TypesFromArgs(format[1], format[2]) :
        Allocates(i, size, type, size[1] * Channels(type) * BytesPerPixel(type))

(* create_image_with_step(): the line has the width or is padded. *)
CreateImageWithStep(i, size, format, padding) ==
    \E type \in TypesFromArgs(format[1], format[2]) :
        Allocates(i, size, type, size[1] * BytesPerPixel(type) + padding)

(* Image::fromMat(): OpenCV has a type for every ImageType, and the image  *)
(* gets the step of the matrix, whose lines follow each other (asserted).  *)
FromMat(i, size, type) == Allocates(i, size, type, size[1] * BytesPerPixel(type))

(* read_image(): nothing happens for a file that OpenCV cannot read.  The  *)
(* image of the reader gives its count to the one that is returned.        *)
ReadImage(i, size, format) ==
    \E type \in TypesFromArgs(format[1], format[2]) : FromMat(i, size, type)

(* create_image_from_existing_pixels() *)
WrapPixels(i, size, format) ==
    /\ \E type \in TypesFromArgs(format[1], format[2]) :
          Constructs(i, Members(NoBuffer, ForeignPixels, 0, size, type,
                                size[1] * BytesPerPixel(type)), <<0, 0>>)
    /\ user' = [user EXCEPT ![i] = "user"]
    /\ UNCHANGED <<allocated, bytes, refs, deletes, deleting, selfCopied>>

(* The copy constructor, for the user or for a function of the dispatcher  *)
CopyImage(i, source, t) ==
    /\ Constructed(source) /\ user[source] = "user"
    /\ Constructs(i, image[source], origin[source])
    /\ refs' = Counted(NoBuffer, image[source].m_ref)
    /\ user' = [user EXCEPT ![i] = t]
    /\ UNCHANGED <<allocated, bytes, deletes, deleting, selfCopied>>

(* write_image_sync() uses a copy of its own, and drops it; *)
WriteImageSync(i, source) == CopyImage(i, source, "user")

(* so does split(), of every image that gets a channel. *)
SplitImage(i, destination) == CopyImage(i, destination, "user")

(* dart_write_image() gives a copy to the default dispatcher, whose thread *)
(* drops it when the file is written.                                      *)
DartWriteImage(i, source) == CopyImage(i, source, "dispatcher")

(* The rectangle lies inside the image. *)
Inside(roi, m) ==
    /\ m.memory # NoBuffer
    /\ roi[3] <= m.m_size[1]
    /\ roi[4] <= m.m_size[2]

RoiMembers(m, roi, begin) ==
    [m EXCEPT !.offset = begin + roi[2] * m.m_lineStride + roi[1] * BytesPerPixel(m.m_type),
              !.m_size = <<roi[3] - roi[1], roi[4] - roi[2]>>]

(* Mutant of CreateRoi: the rectangle is taken from the buffer. *)
CreateRoi_OfBuffer(i, source, roi) ==
    /\ Constructed(source) /\ user[source] = "user"
    /\ Inside(roi, image[source])
    /\ Constructs(i, RoiMembers(image[source], roi, 0),
                  <<origin[source][1] + roi[1], origin[source][2] + roi[2]>>)
    /\ refs' = Counted(NoBuffer, image[source].m_ref)
    /\ user' = [user EXCEPT ![i] = "user"]
    /\ UNCHANGED <<allocated, bytes, deletes, deleting, selfCopied>>

(* Mutant of CreateRoi: the rectangle is not counted. *)
CreateRoi_Uncounted(i, source, roi) ==
    /\ Constructed(source) /\ user[source] = "user"
    /\ Inside(roi, image[source])
    /\ Constructs(i, RoiMembers(image[source], roi, image[source].offset),
                  <<origin[source][1] + roi[1], origin[source][2] + roi[2]>>)
    /\ user' = [user EXCEPT ![i] = "user"]
    /\ UNCHANGED <<allocated, bytes, refs, deletes, deleting, selfCopied>>

(* create_image_from_existing_roi() *)
CreateRoi(i, source, roi) ==
    /\ Constructed(source) /\ user[source] = "user"
    /\ Inside(roi, image[source])
    /\ Constructs(i, RoiMembers(image[source], roi, image[source].offset),
                  <<origin[source][1] + roi[1], origin[source][2] + roi[2]>>)
    /\ refs' = Counted(NoBuffer, image[source].m_ref)
    /\ user' = [user EXCEPT ![i] = "user"]
    /\ UNCHANGED <<allocated, bytes, deletes, deleting, selfCopied>>

(* copy(): totalSize() bytes from the start of m_buffer, which it needs. *)
DeepCopy(i, source) ==
    /\ Constructed(source) /\ user[source] = "user"
    /\ image[source].m_buffer # NoBuffer
    /\ LET m == image[source]
       IN  Allocates(i, m.m_size, m.m_type, m.m_lineStride)

-----------------------------------------------------------------------------
(* An owner goes: the thread deletes the buffer when it counts to 0. *)

Leaves(t, b) == deleting' = [deleting EXCEPT ![t] =
                               IF b # NoBuffer /\ refs[b] = 1 THEN b ELSE NoBuffer]

(* The destructor, also of the temporaries and of a dispatched function. *)
DestroyImage(i) ==
    /\ Constructed(i)
    /\ MayCall(user[i])
    /\ refs' = Counted(image[i].m_buffer, NoBuffer)
    /\ Leaves(user[i], image[i].m_buffer)
    /\ image' = [image EXCEPT ![i] = NoImage]
    /\ origin' = [origin EXCEPT ![i] = <<0, 0>>]
    /\ user' = [user EXCEPT ![i] = "user"]
    /\ UNCHANGED <<allocated, bytes, deletes, selfCopied>>

(* clear() keeps size, type and stride. *)
ClearImage(i) ==
    /\ Constructed(i) /\ user[i] = "user"
    /\ MayCall("user")
    /\ refs' = Counted(image[i].m_buffer, NoBuffer)
    /\ Leaves("user", image[i].m_buffer)
    /\ image' = [image EXCEPT ![i].m_buffer = NoBuffer, ![i].m_ref = NoBuffer,
                              ![i].memory = NoBuffer, ![i].offset = 0]
    /\ origin' = [origin EXCEPT ![i] = <<0, 0>>]
    /\ UNCHANGED <<user, allocated, bytes, deletes, selfCopied>>

(* operator= *)
AssignImage(i, source) ==
    /\ i # source
    /\ Constructed(i) /\ user[i] = "user"
    /\ Constructed(source) /\ user[source] = "user"
    /\ MayCall("user")
    /\ LET old == image[i].m_buffer
           new == image[source].m_ref
       IN  refs' = Counted(old, new) /\ Leaves("user", old)
    /\ image' = [image EXCEPT ![i] = image[source]]
    /\ origin' = [origin EXCEPT ![i] = origin[source]]
    /\ UNCHANGED <<user, allocated, bytes, deletes, selfCopied>>

(* operator= with itself counts up only.  It happens once for a buffer.    *)
AssignItself(i) ==
    /\ Constructed(i) /\ user[i] = "user"
    /\ MayCall("user")
    /\ image[i].m_ref \notin selfCopied \cup {NoBuffer}
    /\ refs' = Counted(NoBuffer, image[i].m_ref)
    /\ selfCopied' = selfCopied \cup {image[i].m_ref}
    /\ UNCHANGED <<image, user, origin, allocated, bytes, deletes, deleting>>

DeleteBuffer(t) ==
    /\ deleting[t] # NoBuffer
    /\ deletes' = [deletes EXCEPT ![deleting[t]] = @ + 1]
    /\ deleting' = [deleting EXCEPT ![t] = NoBuffer]
    /\ UNCHANGED <<image, user, origin, allocated, bytes, refs, selfCopied>>

-----------------------------------------------------------------------------
(* The C interface *)
CApi(i) ==
    \/ \E size \in ImageSizes, format \in Formats :
          \/ CreateImage(i, size, format)
          \/ \E padding \in Paddings : CreateImageWithStep(i, size, format, padding)
          \/ ReadImage(i, size, format)
          \/ WrapPixels(i, size, format)
    \/ \E source \in Images :
          \/ WriteImageSync(i, source) \/ SplitImage(i, source)
          \/ \E roi \in Rois : CreateRoi(i, source, roi)
    \/ DestroyImage(i)

ImageNext ==
    \/ \E i \in Images :
          \/ CApi(i)
          \/ ConstructEmpty(i) \/ ClearImage(i) \/ AssignItself(i)
          \/ \E source \in Images :
                DartWriteImage(i, source) \/ DeepCopy(i, source) \/ AssignImage(i, source)
    \/ \E t \in ImageThreads : DeleteBuffer(t)

-----------------------------------------------------------------------------
(* A buffer lives while an image of either thread refers to it, is deleted *)
(* once, by the last owner, and is not left behind, except after an        *)
(* assignment of an image to itself, which counts an owner that is not.    *)
BuffersExact ==
    \A b \in 1 .. allocated :
        LET owned == \E i \in Images : Constructed(i) /\ image[i].m_buffer = b
            dying == \E t \in ImageThreads : deleting[t] = b
        IN  /\ deletes[b] <= 1
            /\ owned => deletes[b] = 0 /\ ~dying
            /\ dying => deletes[b] = 0
            /\ ~owned /\ ~dying => deletes[b] = 1 \/ b \in selfCopied

(* A rectangle of a rectangle, copied and assigned, begins at its pixel of *)
(* the whole image, and both the pixels that OpenCV is given and the bytes *)
(* that copy() reads are inside the buffer.                                *)
PixelsExact ==
    \A i \in Images : Constructed(i) =>
        LET m == image[i] IN
        m.memory # NoBuffer =>
            /\ m.offset = origin[i][2] * m.m_lineStride
                          + origin[i][1] * BytesPerPixel(m.m_type)
            /\ m.m_buffer # NoBuffer =>
                  /\ TotalSize(m) <= bytes[m.m_buffer]
                  /\ EndOfMat(m) <= bytes[m.m_buffer]
=============================================================================
