------------------------------ MODULE ImageImport ------------------------------
(***************************************************************************)
(* image::detail::Load and the constructor of Image that takes what it     *)
(* loaded: the levels of an image are compressed into a staging buffer,    *)
(* each scaled down from the one before, by workers that share a counter   *)
(* of blocks; the buffer is written to the cache file and read back from   *)
(* it; and every level is copied to the texture from its recorded offset.  *)
(*                                                                         *)
(* A row of pixels is the set of rows of the image it was made from, a     *)
(* compressed block the four rows it was made from with its place in its   *)
(* level.  Offsets are in bytes; staging is kept in units of Unit bytes,   *)
(* half of the larger block.                                               *)
(***************************************************************************)
EXTENDS Integers, Sequences, FiniteSets, FiniteSetsExt

CONSTANTS
  Images,     \* what stbi_load may find: records of width, height and alpha
  Workers     \* hardware_concurrency()

ASSUME WorkersAssumption == Workers \in Nat \ {0}

\* The longest side of an image: it has 16 levels, whose sizes and offsets stay
\* below 2^32.
MaxLevels == 16
MaxSide == 32768
Sides == 1 .. MaxSide

ASSUME ImagesAssumption == Images \subseteq [width : Sides, height : Sides, alpha : BOOLEAN]

VARIABLES
  imagePhase,
  image,       \* the image being imported
  levels,      \* desc.mipLevels
  level,       \* the level being compressed or scaled
  dst,         \* where its first block goes
  blockAtomic,
  worker,      \* the block each worker has taken, or what it waits for
  src,         \* the rows of the level
  scaled,      \* the rows of the next one
  staging,
  imageFile,   \* the cache file
  texture

imageVars == << imagePhase, image, levels, level, dst, blockAtomic, worker, src, scaled,
                staging, imageFile, texture >>

Unit == 8
Threads == 0 .. Workers - 1

NoImage == [width |-> 0, height |-> 0, alpha |-> FALSE]
NoFile == [levels |-> << >>, data |-> << >>]

\* A worker that has no block: it will ask for one, or has been told there are none.
Asks == -1
Done == -2

ImageInit ==
  /\ imagePhase = "idle"
  /\ image = NoImage
  /\ levels = << >>
  /\ level = 0
  /\ dst = 0
  /\ blockAtomic = 0
  /\ worker = [w \in Threads |-> Asks]
  /\ src = << >>
  /\ scaled = << >>
  /\ staging = << >>
  /\ imageFile = NoFile
  /\ texture = << >>

-----------------------------------------------------------------------------
(***************************************************************************)
(* The levels.                                                             *)
(***************************************************************************)

RoundUp(n, multiple) == ((n + multiple - 1) \div multiple) * multiple

\* 2 ^ l
PowerOfTwo[l \in 0 .. MaxLevels] == IF l = 0 THEN 1 ELSE 2 * PowerOfTwo[l - 1]

\* n >> l
Halved(n, l) ==
  LET half[k \in 0 .. MaxLevels] == IF k = 0 THEN n ELSE half[k - 1] \div 2
  IN  half[l]

\* floor(log2(max(width, height))) + 1
MipCount(i) ==
  Cardinality({l \in 0 .. MaxLevels - 1 : PowerOfTwo[l] <= Max({i.width, i.height})})

MipSize(i, l) ==
  LET bytes == RoundUp(Halved(i.width, l), 4) * RoundUp(Halved(i.height, l), 4)
  IN IF i.alpha THEN bytes ELSE bytes \div 2

\* The first n of the sizes together.
SumOf(sizes, n) ==
  LET sum[k \in 0 .. Len(sizes)] == IF k = 0 THEN 0 ELSE sum[k - 1] + sizes[k]
  IN  sum[n]

MipSizes(i) == [n \in 1 .. MipCount(i) |-> MipSize(i, n - 1)]

\* Levels are counted from 0, so the one of index l is levels[l + 1].
MipLevels(i) ==
  [n \in 1 .. MipCount(i) |->
     [width  |-> Halved(i.width, n - 1),
      height |-> Halved(i.height, n - 1),
      size   |-> MipSizes(i)[n],
      offset |-> SumOf(MipSizes(i), n - 1)]]

BlockSize(i) == IF i.alpha THEN 16 ELSE 8

TotalSize(mips) == SumOf([n \in DOMAIN mips |-> mips[n].size], Len(mips))

Extent == levels[level + 1]
BlockCols == Extent.width \div 4
BlockCount == (Extent.height \div 4) * BlockCols
AllAsk == [w \in Threads |-> Asks]

\* stbi_load succeeds, and the staging buffer is made for all levels.
OpenImage(i) ==
  /\ imagePhase = "idle"
  /\ imagePhase' = "compress"
  /\ image' = i
  /\ levels' = MipLevels(i)
  /\ staging' = [u \in 0 .. TotalSize(levels') \div Unit - 1 |-> << >>]
  /\ src' = [r \in 0 .. i.height - 1 |-> {r}]
  /\ imageFile' = NoFile
  /\ UNCHANGED << level, dst, blockAtomic, worker, scaled, texture >>

-----------------------------------------------------------------------------
(***************************************************************************)
(* compressBlocks.                                                         *)
(***************************************************************************)

\* Mutant of Fetch: the counter is read after it was moved on.
FetchesMoved(counter) == [block |-> counter + 1, next |-> counter + 1]

Fetch(counter) == [block |-> counter, next |-> counter + 1]

TakeBlock(w) ==
  /\ imagePhase = "compress"
  /\ worker[w] = Asks
  /\ LET fetched == Fetch(blockAtomic) IN
     /\ blockAtomic' = fetched.next
     /\ worker' = [worker EXCEPT ![w] = IF fetched.block < BlockCount THEN fetched.block ELSE Done]
  /\ UNCHANGED << imagePhase, image, levels, level, dst, src, scaled, staging, imageFile, texture >>

\* What block k of the level is compressed from.
BlockOf(k) ==
  [level |-> level, block |-> k,
   rows  |-> [r \in 0 .. 3 |-> src[4 * (k \div BlockCols) + r]]]

WriteBlock(w) ==
  /\ imagePhase = "compress"
  /\ worker[w] >= 0
  /\ LET first == (dst + worker[w] * BlockSize(image)) \div Unit IN
     staging' = [u \in DOMAIN staging |->
                   IF u \in first .. first + BlockSize(image) \div Unit - 1
                   THEN <<BlockOf(worker[w]), u - first>> ELSE staging[u]]
  /\ worker' = [worker EXCEPT ![w] = Asks]
  /\ UNCHANGED << imagePhase, image, levels, level, dst, blockAtomic, src, scaled, imageFile,
                  texture >>

\* dst moves on by what was written, not by the size that was recorded.
EndLevel ==
  /\ imagePhase = "compress"
  /\ \A w \in Threads : worker[w] = Done
  /\ worker' = AllAsk
  /\ blockAtomic' = 0
  /\ IF level + 1 < Len(levels)
       THEN /\ imagePhase' = "scale"
            /\ dst' = dst + BlockCount * BlockSize(image)
            /\ scaled' = [r \in 0 .. levels[level + 2].height - 1 |-> {}]
            /\ UNCHANGED << level, src >>
       ELSE /\ imagePhase' = "loaded"
            /\ level' = 0 /\ dst' = 0
            /\ src' = << >> /\ scaled' = << >>
  /\ UNCHANGED << image, levels, staging, imageFile, texture >>

-----------------------------------------------------------------------------
(***************************************************************************)
(* The next level: every worker scales its share of the rows when a share  *)
(* is of more than four, or one call scales all of them.                   *)
(***************************************************************************)

ShareOf(l) == levels[l + 1].height \div Workers

\* The rows of the level that worker w reads.
RowsOf(w) ==
  ShareOf(level) + (IF w = Workers - 1 THEN Extent.height % Workers ELSE 0)

\* Row r of the m that n rows from first on are scaled to
\* (stbir_resize_uint8_linear, without the reach of its filter).
ScaledRow(first, n, m, r) ==
  UNION {src[q] : q \in {p \in first .. first + n - 1 :
                           r * n < (p - first + 1) * m /\ (p - first) * m < (r + 1) * n}}

\* n rows from first on become m rows from to on.
Scale(first, n, to, m) ==
  [r \in DOMAIN scaled |-> IF r \in to .. to + m - 1 THEN ScaledRow(first, n, m, r - to)
                           ELSE scaled[r]]

ScaleShare(w) ==
  /\ imagePhase = "scale"
  /\ ShareOf(level) > 4
  /\ worker[w] = Asks
  /\ scaled' = Scale(w * ShareOf(level), RowsOf(w), w * (ShareOf(level) \div 2), RowsOf(w) \div 2)
  /\ worker' = [worker EXCEPT ![w] = Done]
  /\ UNCHANGED << imagePhase, image, levels, level, dst, blockAtomic, src, staging, imageFile,
                  texture >>

ScaleAll ==
  /\ imagePhase = "scale"
  /\ ShareOf(level) <= 4
  /\ worker = AllAsk
  /\ scaled' = Scale(0, Extent.height, 0, levels[level + 2].height)
  /\ worker' = [w \in Threads |-> Done]
  /\ UNCHANGED << imagePhase, image, levels, level, dst, blockAtomic, src, staging, imageFile,
                  texture >>

EndScale ==
  /\ imagePhase = "scale"
  /\ \A w \in Threads : worker[w] = Done
  /\ imagePhase' = "compress"
  /\ level' = level + 1
  /\ src' = scaled
  /\ worker' = AllAsk
  /\ UNCHANGED << image, levels, dst, blockAtomic, scaled, staging, imageFile, texture >>

-----------------------------------------------------------------------------
(***************************************************************************)
(* The cache file and the texture.                                         *)
(***************************************************************************)

\* The description, and as many bytes as its levels say.
SaveImage ==
  /\ imagePhase = "loaded"
  /\ imagePhase' = "staged"
  /\ imageFile' = [levels |-> levels,
                   data   |-> [u \in 0 .. TotalSize(levels) \div Unit - 1 |-> staging[u]]]
  /\ UNCHANGED << image, levels, level, dst, blockAtomic, worker, src, scaled, staging, texture >>

LoadImageBin ==
  /\ imagePhase = "idle"
  /\ imageFile # NoFile
  /\ imagePhase' = "staged"
  /\ levels' = imageFile.levels
  /\ staging' = [u \in 0 .. TotalSize(levels') \div Unit - 1 |-> imageFile.data[u]]
  /\ UNCHANGED << image, level, dst, blockAtomic, worker, src, scaled, imageFile, texture >>

\* CopyBufferToImage: a region of every level, from its recorded offset on,
\* with all the blocks the extent of the level touches.
Region(mip) ==
  LET blocks == (RoundUp(mip.width, 4) \div 4) * (RoundUp(mip.height, 4) \div 4)
      units == BlockSize(image) \div Unit
  IN [k \in 0 .. blocks - 1 |->
        [p \in 0 .. units - 1 |-> staging[mip.offset \div Unit + k * units + p]]]

CopyBufferToImage ==
  /\ imagePhase = "staged"
  /\ imagePhase' = "uploaded"
  /\ texture' = [n \in DOMAIN levels |-> Region(levels[n])]
  /\ UNCHANGED << image, levels, level, dst, blockAtomic, worker, src, scaled, staging, imageFile >>

\* The timeline callback frees the staging buffer and the image is replaced;
\* the cache file stays, and the image may be opened again or another one.
ReleaseImage ==
  /\ imagePhase = "uploaded"
  /\ imagePhase' = "idle"
  /\ levels' = << >> /\ staging' = << >> /\ texture' = << >>
  /\ UNCHANGED << image, level, dst, blockAtomic, worker, src, scaled, imageFile >>

ImageNext ==
  \/ \E i \in Images : OpenImage(i)
  \/ \E w \in Threads : TakeBlock(w) \/ WriteBlock(w) \/ ScaleShare(w)
  \/ EndLevel \/ ScaleAll \/ EndScale
  \/ SaveImage \/ LoadImageBin \/ CopyBufferToImage \/ ReleaseImage

-----------------------------------------------------------------------------
\* The levels up to l have whole blocks only: past them the blocks that are
\* written lag behind the offsets that are recorded.
WholeBlocks(l) == \A n \in 1 .. l + 1 : levels[n].width % 4 = 0 /\ levels[n].height % 4 = 0

\* No share that was scaled on the way to level l had an odd number of rows,
\* which would lose a row for every worker.
EvenShares(l) == \A k \in 0 .. l - 1 : ShareOf(k) <= 4 \/ ShareOf(k) % 2 = 0

\* The rows of the image that row r of level l stands for.
RowsUnder(l, r) == r * PowerOfTwo[l] .. (r + 1) * PowerOfTwo[l] - 1

\* Whatever order the workers take and write the blocks in, and whether the
\* image was imported or read back from the cache, the texture has at every
\* level each of its blocks in its place, made from the rows of the image it
\* covers, as long as the levels are of whole blocks and the shares even.
\* image.cpp:146-335, utils.cpp:631-666.
ImageAsRead ==
  imagePhase = "uploaded" =>
    \A l \in 0 .. Len(levels) - 1 : WholeBlocks(l) /\ EvenShares(l) =>
      LET cols == levels[l + 1].width \div 4
          blocks == texture[l + 1]
      IN /\ DOMAIN blocks = 0 .. cols * (levels[l + 1].height \div 4) - 1
         /\ \A k \in DOMAIN blocks : \A p \in DOMAIN blocks[k] :
              blocks[k][p] =
                <<[level |-> l, block |-> k,
                   rows |-> [r \in 0 .. 3 |-> RowsUnder(l, 4 * (k \div cols) + r)]], p>>
=============================================================================
